---- MODULE Spec2Model ----
(***************************************************************************)
(* A model of the wavetable synthesizer engine bundled in this repository  *)
(* (rendererWorker.js, listed in src/README.md): SynthEventScheduler,      *)
(* SynthEventHandler, SynthProcessorCore, SampleTable, the voices          *)
(* (WavetableOscillator with its AmplitudeEnvelope) and the reverb levels. *)
(*                                                                         *)
(* Time is counted in frames; one render buffer is BufferSize frames.      *)
(* Envelope times are counted in buffers (one getAmplitude call adds       *)
(* bufferSize / sampleRate seconds = one tick to phaseTime), amplitudes    *)
(* in units of 1 / AmpOne.                                                 *)
(***************************************************************************)
EXTENDS Integers, Sequences, FiniteSets, TLC

(***************************************************************************)
(* Bounds of the model.                                                    *)
(***************************************************************************)
\* number of addEvent calls explored from the constructed engine
MaxEvents == 3
\* number of addEvent calls explored from the engine with its sound font loaded
MaxVoiceEvents == 4
\* number of note, pedal and all-notes-off events explored
MaxHoldEvents == 5
\* number of bank-select and note events explored
MaxBankEvents == 4
\* number of parameter-number, data-entry and pitch-bend events explored
MaxRpnEvents == 4
\* number of channel-operation events explored
MaxChannelEvents == 3
\* number of sample-table and note events explored
MaxTableEvents == 4
MaxAcceptEvents == 3
\* number of note and pedal events explored, the last frame at which one is
\* submitted, and the frame up to which the render loop is then followed
MaxReleaseEvents == 3
\* number of addEvent calls explored around a channel reset
MaxResetEvents == 4
\* number of addEvent calls explored for the voice lists
MaxPlayingEvents == 4
\* number of calls made on the MIDIPlayer, timer ticks included
MaxPlayerCalls == 5
\* number of song events one timer tick reads
MaxRead == 3
\* number of cancel messages posted to the render worker
MaxCancelMessages == 1
\* number of addEvent calls explored for the order of the queues
MaxOrderEvents == 4
\* number of addEvent calls explored for layered samples
MaxLayerEvents == 4
\* frames rendered while the voice lists are explored
MaxPlayingFrame == 8
\* frames rendered around a channel reset
MaxResetFrame == 6
MaxSubmitFrame == 4
MaxReleaseFrame == 16
\* largest delayTime a caller submits (frames)
MaxDelay == 2
\* largest sequenceNumber a caller gives an event
MaxSeq == 2
\* the render loop is followed up to this frame
MaxFrame == 4
\* the render loop is followed up to this frame, the sound font loaded
MaxVoiceFrame == 6
\* frames per render buffer (renderAudio's bufSize, the worklet's quantum)
BufferSize == 2

(***************************************************************************)
(* Program constants.                                                      *)
(***************************************************************************)
RHYTHM_CHANNEL == 9
RHYTHM_BANK == 128
MSB_BANK == 0
MSB_MODWHEEL == 1
MSB_DATA_ENTRY == 6
MSB_MAIN_VOLUME == 7
MSB_PAN == 10
MSB_EXPRESSION == 11
LSB_BANK == 32
LSB_DATA_ENTRY == 38
SUSTAIN == 64
NONREG_PARM_NUM_LSB == 98
NONREG_PARM_NUM_MSB == 99
REGIST_PARM_NUM_LSB == 100
REGIST_PARM_NUM_MSB == 101
ALL_SOUNDS_OFF == 120
RESET_CONTROLLERS == 121
ALL_NOTES_OFF == 123
\* hold(channel, value): value >= 64 engages the pedal
HoldThreshold == 64
\* 1.0 in amplitude units
AmpOne == 4000
\* linear factor of -100 dB is 1 / ReleaseFloorDiv
ReleaseFloorDiv == 100000
\* forceStopReleaseTime (0.1 s) in buffers, 0.1 * sampleRate / bufferSize, is
\* ForceStopTicks / ForceStopDiv: two buffers and a half
ForceStopTicks == 5
ForceStopDiv == 2

\* the read pointer of a voice counts in units of 1 / PointerDiv sample
PointerDiv == 2

\* "undefined" for a number
Undef == -1000

Min(a, b) == IF a < b THEN a ELSE b
Max(a, b) == IF a > b THEN a ELSE b

(***************************************************************************)
(* Inputs: channels, keys, the sound font and the events callers submit.   *)
(***************************************************************************)
Channels == {0, 9}
Keys == {60, 61}
Velocity == 100
NoClass == Undef
NoSeq == Undef

\* AmplitudeEnvelope parameter of a sample, times in buffers
EnvParam(a, h, d, s, r) ==
  [attackTime |-> a, holdTime |-> h, decayTime |-> d, sustainLevel |-> s, releaseTime |-> r]

\* a sampleParameter event's parameter; the sample's pitch is the key it is mapped to
SampleParam(id, cls, env, loopType, loopStart, loopEnd, sEnd) ==
  [sampleID |-> id, exclusiveClass |-> cls, amplitudeEnvelope |-> env,
   loop |-> [type |-> loopType, start |-> loopStart, end |-> loopEnd],
   sampleStart |-> 0, sampleEnd |-> sEnd]

SampleRange(bank, instrument, keyLo, keyHi, velLo, velHi) ==
  [bank |-> bank, instrument |-> instrument, keyRange |-> <<keyLo, keyHi>>,
   velRange |-> <<velLo, velHi>>]

\* The sound font of the model: the "sampleParameter" events in the order
\* getSampleEventsFromSoundFont yields them, each [parameter, range].  Key 60
\* of bank 0 is layered (classes 1 and 2), key 61 too (class 1 and none);
\* bank 128 is the rhythm bank.
SoundFont ==
  << [parameter |-> SampleParam(1, 1, EnvParam(1, 0, 1, AmpOne \div 4, 1),
                                "loop_continuous", 0, 4, 4),
      range |-> SampleRange(0, 0, 60, 60, 0, 127)],
     [parameter |-> SampleParam(2, 2, EnvParam(2, 1, 1, 0, 1), "no_loop", 0, 0, 6),
      range |-> SampleRange(0, 0, 60, 60, 0, 127)],
     [parameter |-> SampleParam(1, 1, EnvParam(1, 0, 1, AmpOne \div 2, 2),
                                "loop_sustain", 0, 4, 6),
      range |-> SampleRange(0, 0, 61, 61, 0, 127)],
     [parameter |-> SampleParam(2, NoClass, EnvParam(1, 0, 1, AmpOne \div 4, 1),
                                "loop_continuous", 0, 4, 4),
      range |-> SampleRange(0, 0, 61, 61, 0, 127)],
     [parameter |-> SampleParam(1, 1, EnvParam(1, 0, 1, AmpOne \div 4, 1),
                                "loop_continuous", 0, 4, 4),
      range |-> SampleRange(128, 0, 60, 61, 0, 127)],
     [parameter |-> SampleParam(2, NoClass, EnvParam(1, 0, 1, AmpOne \div 4, 1),
                                "loop_continuous", 0, 4, 4),
      range |-> SampleRange(129, 0, 60, 61, 0, 127)] >>

SampleIDs == {SoundFont[i].parameter.sampleID : i \in DOMAIN SoundFont}

NoMidi == [type |-> "none", subtype |-> "none", channel |-> Undef, noteNumber |-> Undef,
           velocity |-> Undef, controllerType |-> Undef, value |-> Undef]

NoteOnEvent(c, k, v) ==
  [NoMidi EXCEPT !.type = "channel", !.subtype = "noteOn", !.channel = c,
                 !.noteNumber = k, !.velocity = v]
NoteOffEvent(c, k) ==
  [NoMidi EXCEPT !.type = "channel", !.subtype = "noteOff", !.channel = c, !.noteNumber = k]
ControllerEvent(c, t, v) ==
  [NoMidi EXCEPT !.type = "channel", !.subtype = "controller", !.channel = c,
                 !.controllerType = t, !.value = v]
ProgramChangeEvent(c, v) ==
  [NoMidi EXCEPT !.type = "channel", !.subtype = "programChange", !.channel = c, !.value = v]

PitchBendEvent(c, v) ==
  [NoMidi EXCEPT !.type = "channel", !.subtype = "pitchBend", !.channel = c, !.value = v]

NoParam == [sampleID |-> Undef]
NoRange == [bank |-> Undef]

\* A SynthEvent as addEvent receives it.  hasDelay is ["delayTime" in e];
\* sequenceNumber is NoSeq when the caller sets none.
SynthEvent(type, hasDelay, delayTime, seq, midi, amount, parameter, range, sampleID) ==
  [type |-> type, hasDelay |-> hasDelay, delayTime |-> delayTime, sequenceNumber |-> seq,
   midi |-> midi, amount |-> amount, parameter |-> parameter, range |-> range,
   sampleID |-> sampleID]

MidiEvent(midi, delayTime, seq) ==
  SynthEvent("midi", TRUE, delayTime, seq, midi, Undef, NoParam, NoRange, Undef)
ReverbControlEvent(amount, delayTime, seq) ==
  SynthEvent("reverbControl", TRUE, delayTime, seq, NoMidi, amount, NoParam, NoRange, Undef)
SampleParameterEvent(sp, seq) ==
  SynthEvent("sampleParameter", FALSE, Undef, seq, NoMidi, Undef, sp.parameter, sp.range, Undef)
LoadSampleEvent(id, seq) ==
  SynthEvent("loadSample", FALSE, Undef, seq, NoMidi, Undef, NoParam, NoRange, id)
\* a loadSample event that carries a delayTime, and a midi event that carries none
DelayedLoadSampleEvent(id, delayTime, seq) ==
  SynthEvent("loadSample", TRUE, delayTime, seq, NoMidi, Undef, NoParam, NoRange, id)
UndelayedMidiEvent(midi, seq) ==
  SynthEvent("midi", FALSE, Undef, seq, midi, Undef, NoParam, NoRange, Undef)

(***************************************************************************)
(* SynthEventScheduler: the sorted queues.                                 *)
(***************************************************************************)
\* the binary search of insertSorted: the first index (0-based) whose
\* scheduledFrame is not below the item's
RECURSIVE InsertIndex(_, _, _, _)
InsertIndex(arr, frame, low, high) ==
  IF low < high
  THEN LET mid == (low + high) \div 2
       IN IF arr[mid + 1].scheduledFrame < frame
          THEN InsertIndex(arr, frame, mid + 1, high)
          ELSE InsertIndex(arr, frame, low, mid)
  ELSE low

\* arr.splice(low, 0, item)
Splice(arr, low, item) ==
  SubSeq(arr, 1, low) \o <<item>> \o SubSeq(arr, low + 1, Len(arr))

\* insertSorted gone wrong: the item is put at the end of the queue
insertLast(arr, item) == Append(arr, item)

\* insertSorted gone wrong: the item is put at the head of the queue
insertFirst(arr, item) == <<item>> \o arr

insertSorted(arr, item) ==
  Splice(arr, InsertIndex(arr, item.scheduledFrame, 0, Len(arr)), item)

\* a < b and a > b of JavaScript on sequence numbers: both false when either is undefined
SeqLess(a, b) == a # NoSeq /\ b # NoSeq /\ a < b

sortEvents(a, b) ==
  IF a.scheduledFrame < b.scheduledFrame THEN -1
  ELSE IF a.scheduledFrame > b.scheduledFrame THEN 1
  ELSE IF SeqLess(a.sequenceNumber, b.sequenceNumber) THEN -1
  ELSE IF SeqLess(b.sequenceNumber, a.sequenceNumber) THEN 1
  ELSE 0

\* Array.prototype.sort on a short array (binary insertion sort, as the
\* engines run it below their merge threshold): the place of pivot in the
\* sorted prefix arr[1..hi] is found by bisection, right of equal elements.
RECURSIVE BinarySearchRight(_, _, _, _)
BinarySearchRight(arr, pivot, left, right) ==
  IF left < right
  THEN LET mid == (left + right) \div 2
       IN IF sortEvents(pivot, arr[mid + 1]) < 0
          THEN BinarySearchRight(arr, pivot, left, mid)
          ELSE BinarySearchRight(arr, pivot, mid + 1, right)
  ELSE left

RECURSIVE SortFrom(_, _)
SortFrom(arr, i) ==
  IF i > Len(arr) THEN arr
  ELSE LET pivot == arr[i]
           prefix == SubSeq(arr, 1, i - 1)
           pos == BinarySearchRight(prefix, pivot, 0, i - 1)
       IN SortFrom(Splice(prefix, pos, pivot) \o SubSeq(arr, i + 1, Len(arr)), i + 1)

\* the length of the initial run (a strictly descending run when desc)
RECURSIVE RunLength(_, _, _)
RunLength(arr, desc, n) ==
  IF n >= Len(arr) THEN n
  ELSE LET order == sortEvents(arr[n + 1], arr[n])
       IN IF (desc /\ order >= 0) \/ (~desc /\ order < 0) THEN n
          ELSE RunLength(arr, desc, n + 1)

Reverse(seq) == [i \in 1..Len(seq) |-> seq[Len(seq) + 1 - i]]

\* this.currentEvents.sort(sortEvents)
Sort(arr) ==
  IF Len(arr) < 2 THEN arr
  ELSE LET desc == sortEvents(arr[2], arr[1]) < 0
           run == RunLength(arr, desc, 2)
           start == IF desc
                    THEN Reverse(SubSeq(arr, 1, run)) \o SubSeq(arr, run + 1, Len(arr))
                    ELSE arr
       IN SortFrom(start, run + 1)


(***************************************************************************)
(* SampleTable.  sampleParameters maps <<bank, instrument, key>> to the    *)
(* list registered there; a bank (an instrument) is defined when one of    *)
(* its keys is.                                                            *)
(***************************************************************************)
RECURSIVE AddKeys(_, _, _, _, _)
AddKeys(table, parameter, range, i, last) ==
  IF i > last THEN table
  ELSE LET at == <<range.bank, range.instrument, i>>
           entry == [parameter |-> parameter, velRange |-> range.velRange]
           old == IF at \in DOMAIN table THEN table[at] ELSE <<>>
           next == [x \in DOMAIN table \cup {at} |->
                      IF x = at THEN Append(old, entry) ELSE table[x]]
       IN AddKeys(next, parameter, range, i + 1, last)

\* addSampleParameter gone wrong: only the first key of the range is given
\* the parameter
addSampleParameterFirstKey(table, parameter, range) ==
  AddKeys(table, parameter, range, range.keyRange[1], range.keyRange[1])

addSampleParameter(table, parameter, range) ==
  AddKeys(table, parameter, range, range.keyRange[1], range.keyRange[2])

InstrumentDefined(table, bank, instrument) ==
  \E at \in DOMAIN table : at[1] = bank /\ at[2] = instrument

\* getSamples gone wrong: bank 0 is looked in only when the bank has no entry
\* at all
getSamplesBankFallback(samples, table, bank, instrument, pitch, velocity) ==
  LET useBank == IF \E at \in DOMAIN table : at[1] = bank THEN bank ELSE 0
      at == <<useBank, instrument, pitch>>
      registered == IF at \in DOMAIN table THEN table[at] ELSE <<>>
      InRange(e) == velocity >= e.velRange[1] /\ velocity <= e.velRange[2]
      Loaded(e) == e.parameter.sampleID \in samples
      found == SelectSeq(SelectSeq(registered, InRange), Loaded)
  IN [i \in 1..Len(found) |-> found[i].parameter]

\* getSamples gone wrong: a parameter is returned whether its sample is
\* loaded or not
getSamplesUnloaded(samples, table, bank, instrument, pitch, velocity) ==
  LET useBank == IF InstrumentDefined(table, bank, instrument) THEN bank ELSE 0
      at == <<useBank, instrument, pitch>>
      registered == IF at \in DOMAIN table THEN table[at] ELSE <<>>
      InRange(e) == velocity >= e.velRange[1] /\ velocity <= e.velRange[2]
      found == SelectSeq(registered, InRange)
  IN [i \in 1..Len(found) |-> found[i].parameter]

\* SampleTable.getSamples: the parameters whose sample buffer is loaded
getSamples(samples, table, bank, instrument, pitch, velocity) ==
  LET useBank == IF InstrumentDefined(table, bank, instrument) THEN bank
                 ELSE IF InstrumentDefined(table, 0, instrument) THEN 0
                 ELSE Undef
      at == <<useBank, instrument, pitch>>
      registered == IF useBank # Undef /\ at \in DOMAIN table THEN table[at] ELSE <<>>
      InRange(e) == velocity >= e.velRange[1] /\ velocity <= e.velRange[2]
      Loaded(e) == e.parameter.sampleID \in samples
      parameters == SelectSeq(registered, InRange)
      found == SelectSeq(parameters, Loaded)
  IN [i \in 1..Len(found) |-> found[i].parameter]

(***************************************************************************)
(* AmplitudeEnvelope.                                                      *)
(***************************************************************************)
Power(base, exp) ==
  LET P[i \in 0..exp] == IF i = 0 THEN 1 ELSE base * P[i - 1]
  IN P[exp]

\* fromLevel * 10 ^ ((attenuationDecibel / duration * time) / 20), with the
\* attenuation given as the factor num / den that it stands for (a decibel
\* value d is the factor 10 ^ (d / 20)); time and duration in buffers, the
\* whole periods of duration counted.  A positive level stays positive, as
\* it does in floating point: at least one unit.  The attenuation of a zero
\* level is minus infinity decibel: the result is 0 at any time after 0.
logAttenuation(fromLevel, num, den, duration, time) ==
  LET periods == time \div duration
  IN IF num = 0 /\ time > 0 THEN 0
     ELSE IF periods = 0 THEN fromLevel
     ELSE IF num = 0 \/ fromLevel <= 0 THEN 0
     ELSE Max(1, (fromLevel * Power(num, periods)) \div Power(den, periods))

\* set phase(phase): a change of phase resets phaseTime
SetPhase(env, phase) ==
  IF env.phase = phase THEN env ELSE [env EXCEPT !.phase = phase, !.phaseTime = 0]

NewEnvelope(parameter) ==
  [parameter |-> parameter, phase |-> "stopped", isNoteOff |-> FALSE, phaseTime |-> 0,
   decayLevel |-> 0, lastAmplitude |-> 0]

EnvelopeNoteOn(env) ==
  [SetPhase(env, "attack") EXCEPT !.isNoteOff = FALSE, !.phaseTime = 0,
                                  !.decayLevel = env.parameter.sustainLevel]

\* noteOff gone wrong: the release begins at once, whatever the phase
EnvelopeNoteOffReleases(env) ==
  [SetPhase(env, "release") EXCEPT !.isNoteOff = TRUE, !.decayLevel = env.lastAmplitude]

\* noteOff gone wrong: the envelope does not take note of it
EnvelopeNoteOffIgnored(env) == env

EnvelopeNoteOff(env) == [env EXCEPT !.isNoteOff = TRUE]

EnvelopeForceStopKeepsRelease(env) ==
  IF env.phase = "release" THEN env ELSE SetPhase(env, "forceStop")

EnvelopeForceStop(env) == SetPhase(env, "forceStop")

\* calculateAmplitude: [env, value]
calculateAmplitude(env0) ==
  LET par == env0.parameter
      env == IF env0.isNoteOff /\ env0.phase \in {"decay", "sustain"}
             THEN [SetPhase(env0, "release") EXCEPT !.decayLevel = env0.lastAmplitude]
             ELSE env0
  IN CASE env.phase = "attack" ->
            LET value == env.lastAmplitude + AmpOne \div par.attackTime
            IN IF value >= AmpOne
               THEN [env |-> SetPhase(env, "hold"), value |-> AmpOne]
               ELSE [env |-> env, value |-> value]
       [] env.phase = "hold" ->
            [env |-> IF env.phaseTime >= par.holdTime THEN SetPhase(env, "decay") ELSE env,
             value |-> env.lastAmplitude]
       [] env.phase = "decay" ->
            LET value == logAttenuation(AmpOne, par.sustainLevel, AmpOne,
                                        par.decayTime, env.phaseTime)
            IN IF env.phaseTime > par.decayTime
               THEN IF par.sustainLevel <= 0
                    THEN [env |-> SetPhase(env, "stopped"), value |-> 0]
                    ELSE [env |-> SetPhase(env, "sustain"), value |-> par.sustainLevel]
               ELSE [env |-> env, value |-> value]
       [] env.phase = "sustain" -> [env |-> env, value |-> par.sustainLevel]
       [] env.phase = "release" ->
            LET value == logAttenuation(env.decayLevel, 1, ReleaseFloorDiv,
                                        par.releaseTime, env.phaseTime)
            IN IF env.phaseTime > par.releaseTime \/ value <= 0
               THEN [env |-> SetPhase(env, "stopped"), value |-> 0]
               ELSE [env |-> env, value |-> value]
       [] env.phase = "forceStop" ->
            LET value == env.lastAmplitude - (AmpOne * ForceStopDiv) \div ForceStopTicks
            IN IF value <= 0
               THEN [env |-> SetPhase(env, "stopped"), value |-> 0]
               ELSE [env |-> env, value |-> value]
       [] OTHER -> [env |-> env, value |-> 0]

getAmplitudeNoTime(env) ==
  LET r == calculateAmplitude(env)
  IN [r.env EXCEPT !.lastAmplitude = r.value]

\* getAmplitude: the envelope after the call.  The time added is bufferSize /
\* sampleRate, one buffer, sampleRate being the global of the audio worklet
\* scope the application loads the engine in: the rate the engine was made with.
getAmplitude(env) ==
  LET r == calculateAmplitude(env)
  IN [r.env EXCEPT !.lastAmplitude = r.value, !.phaseTime = r.env.phaseTime + 1]

EnvelopeIsPlaying(env) == env.phase # "stopped"


(***************************************************************************)
(* WavetableOscillator: one voice.  vid numbers the voices in creation     *)
(* order.  With the sample's pitch equal to the key and no pitch bend the  *)
(* read pointer advances one sample per frame.  The read pointer           *)
(* sampleIndex is a fraction, kept in units of 1 / PointerDiv sample; so   *)
(* is speed, the modulatedSpeed of process: what the key, the pitch bend,  *)
(* the modulation and the two sample rates make the pointer advance by in  *)
(* a frame.                                                                *)
(***************************************************************************)
NewOscillator(vid, sample) ==
  [vid |-> vid, sample |-> sample, sampleIndex |-> 0, isPlaying |-> FALSE,
   isNoteOff |-> FALSE, velocity |-> AmpOne, isHold |-> FALSE, speed |-> PointerDiv,
   envelope |-> NewEnvelope(sample.amplitudeEnvelope)]

OscNoteOn(osc, velocity) ==
  [osc EXCEPT !.velocity = velocity, !.isPlaying = TRUE,
              !.sampleIndex = osc.sample.sampleStart * PointerDiv,
              !.envelope = EnvelopeNoteOn(osc.envelope)]

\* noteOff gone wrong: the envelope is told, the voice is not marked
OscNoteOffEnvelopeOnly(osc) == [osc EXCEPT !.envelope = EnvelopeNoteOff(osc.envelope)]

OscNoteOff(osc) ==
  [osc EXCEPT !.envelope = EnvelopeNoteOff(osc.envelope), !.isNoteOff = TRUE]

OscForceStop(osc) == [osc EXCEPT !.envelope = EnvelopeForceStop(osc.envelope)]

\* the frame loop gone wrong: a wrap keeps how far the pointer overshot loop.end
RECURSIVE AdvanceKeepsOvershoot(_, _)
AdvanceKeepsOvershoot(osc, i) ==
  IF i = 0 THEN osc
  ELSE LET loop == osc.sample.loop
           advancedIndex == osc.sampleIndex + osc.speed
           wraps == (loop.type = "loop_continuous" \/
                     (loop.type = "loop_sustain" /\ ~osc.isNoteOff))
                    /\ advancedIndex >= loop.end * PointerDiv
           loopIndex == (loop.start * PointerDiv) + (advancedIndex - loop.end * PointerDiv)
           next == [osc EXCEPT !.sampleIndex = IF wraps THEN loopIndex ELSE advancedIndex]
       IN IF next.sampleIndex >= osc.sample.sampleEnd * PointerDiv
          THEN [next EXCEPT !.isPlaying = FALSE]
          ELSE AdvanceKeepsOvershoot(next, i - 1)

\* the frame loop of WavetableOscillator.process, i frames left in the buffer
RECURSIVE Advance(_, _)
Advance(osc, i) ==
  IF i = 0 THEN osc
  ELSE LET loop == osc.sample.loop
           advancedIndex == osc.sampleIndex + osc.speed
           wraps == (loop.type = "loop_continuous" \/
                     (loop.type = "loop_sustain" /\ ~osc.isNoteOff))
                    /\ advancedIndex >= loop.end * PointerDiv
           \* loop.start + (advancedIndex - Math.floor(advancedIndex))
           loopIndex == (loop.start * PointerDiv) + (advancedIndex % PointerDiv)
           next == [osc EXCEPT !.sampleIndex = IF wraps THEN loopIndex ELSE advancedIndex]
       IN IF next.sampleIndex >= osc.sample.sampleEnd * PointerDiv
          THEN [next EXCEPT !.isPlaying = FALSE]
          ELSE Advance(next, i - 1)

OscProcess(osc) ==
  IF ~osc.isPlaying THEN osc
  ELSE Advance([osc EXCEPT !.envelope = getAmplitude(osc.envelope)], BufferSize)

OscIsPlaying(osc) == osc.isPlaying /\ EnvelopeIsPlaying(osc.envelope)

(***************************************************************************)
(* SynthProcessorCore.  The engine state st is a record of the scheduler   *)
(* queues, the handler's maps, the sample table, the channels and the      *)
(* reverb levels (tenths); channels is defined on the channels created so  *)
(* far, oscillators on every key (an absent list is the empty list).       *)
(***************************************************************************)
initialChannelState ==
  [volume |-> 127, bank |-> 0, instrument |-> 0, pitchBend |-> 0,
   pitchBendSensitivity |-> 2, oscillators |-> [k \in Keys |-> <<>>],
   expression |-> 127, pan |-> 0, modulation |-> 0, hold |-> FALSE]

getChannelState(st, channel) ==
  IF channel \in DOMAIN st.channels THEN st
  ELSE [st EXCEPT !.channels = [c \in DOMAIN st.channels \cup {channel} |->
                                  IF c = channel THEN initialChannelState
                                  ELSE st.channels[c]]]

\* this.channels[channel] = state
SetChannel(st, channel, state) ==
  [st EXCEPT !.channels = [c \in DOMAIN st.channels |->
                             IF c = channel THEN state ELSE st.channels[c]]]

\* the voices of a channel state at a key, and all of them
VoicesAt(state, k) == {state.oscillators[k][n] : n \in 1..Len(state.oscillators[k])}

Voices(state) == UNION {VoicesAt(state, k) : k \in Keys}

\* for (const key in state.oscillators) for (const osc of state.oscillators[key]):
\* every voice of a channel state becomes what f makes of it
MapOscillators(state, f) ==
  [state EXCEPT !.oscillators =
     [k \in Keys |-> [i \in 1..Len(state.oscillators[k]) |-> f[state.oscillators[k][i]]]]]

coreGetSamples(st, channel, pitch, velocity) ==
  LET state == st.channels[channel]
      bank == IF channel = RHYTHM_CHANNEL THEN RHYTHM_BANK ELSE state.bank
  IN getSamples(st.samples, st.sampleParameters, bank, state.instrument, pitch, velocity)

\* the loop of noteOn gone wrong: a sample of an exclusive class stops every
\* voice of the channel
RECURSIVE NoteOnStealsAll(_, _, _, _, _, _)
NoteOnStealsAll(st, channel, pitch, velocity, samples, i) ==
  IF i > Len(samples) THEN st
  ELSE LET sample == samples[i]
           oscillator == OscNoteOn(NewOscillator(st.nextVid, sample),
                                   (velocity * AmpOne) \div 127)
           state == st.channels[channel]
           stolen == IF sample.exclusiveClass # NoClass
                     THEN MapOscillators(state, [osc \in Voices(state) |->
                                                   OscForceStop(osc)])
                     ELSE state
           pushed == [stolen EXCEPT !.oscillators =
                        [k \in Keys |-> IF k = pitch
                                        THEN Append(stolen.oscillators[k], oscillator)
                                        ELSE stolen.oscillators[k]]]
       IN NoteOnStealsAll([SetChannel(st, channel, pushed) EXCEPT !.nextVid = @ + 1],
                          channel, pitch, velocity, samples, i + 1)

\* the loop of noteOn over the matching samples, from the i-th
RECURSIVE NoteOnSamples(_, _, _, _, _, _)
NoteOnSamples(st, channel, pitch, velocity, samples, i) ==
  IF i > Len(samples) THEN st
  ELSE LET sample == samples[i]
           oscillator == OscNoteOn(NewOscillator(st.nextVid, sample),
                                   (velocity * AmpOne) \div 127)
           Steal(osc) == IF osc.sample.exclusiveClass = sample.exclusiveClass
                         THEN OscForceStop(osc) ELSE osc
           state == st.channels[channel]
           stolen == IF sample.exclusiveClass # NoClass
                     THEN MapOscillators(state, [osc \in Voices(state) |-> Steal(osc)])
                     ELSE state
           pushed == [stolen EXCEPT !.oscillators =
                        [k \in Keys |-> IF k = pitch
                                        THEN Append(stolen.oscillators[k], oscillator)
                                        ELSE stolen.oscillators[k]]]
       IN NoteOnSamples([SetChannel(st, channel, pushed) EXCEPT !.nextVid = @ + 1],
                        channel, pitch, velocity, samples, i + 1)

\* noteOn gone wrong: the new voices replace the voices of the key
noteOnReplaces(st0, channel, pitch, velocity) ==
  LET st == getChannelState(st0, channel)
      state == st.channels[channel]
      bank == IF channel = RHYTHM_CHANNEL THEN RHYTHM_BANK ELSE state.bank
      samples == coreGetSamples(st, channel, pitch, velocity)
      emptied == [state EXCEPT !.oscillators =
                    [k \in Keys |-> IF k = pitch THEN <<>> ELSE state.oscillators[k]]]
      looked == [SetChannel(st, channel, emptied) EXCEPT
                   !.resolved = Append(@, [channel |-> channel, bank |-> bank,
                                           found |-> Len(samples),
                                           samples |-> samples])]
  IN NoteOnSamples(looked, channel, pitch, velocity, samples, 1)

noteOn(st0, channel, pitch, velocity) ==
  LET st == getChannelState(st0, channel)
      state == st.channels[channel]
      bank == IF channel = RHYTHM_CHANNEL THEN RHYTHM_BANK ELSE state.bank
      samples == coreGetSamples(st, channel, pitch, velocity)
      looked == [st EXCEPT !.resolved = Append(@, [channel |-> channel, bank |-> bank,
                                                    found |-> Len(samples),
                                                    samples |-> samples])]
  IN NoteOnSamples(looked, channel, pitch, velocity, samples, 1)

\* noteOff gone wrong: the hold pedal is not looked at
noteOffIgnoresHold(st0, channel, pitch) ==
  LET st == getChannelState(st0, channel)
      state == st.channels[channel]
      At(k) == IF k = pitch
               THEN [i \in 1..Len(state.oscillators[k]) |->
                       LET osc == state.oscillators[k][i]
                       IN IF osc.isNoteOff THEN osc ELSE OscNoteOff(osc)]
               ELSE state.oscillators[k]
  IN IF pitch \notin Keys THEN st
     ELSE SetChannel(st, channel, [state EXCEPT !.oscillators = [k \in Keys |-> At(k)]])

noteOff(st0, channel, pitch) ==
  LET st == getChannelState(st0, channel)
      state == st.channels[channel]
      Hold(osc) == [osc EXCEPT !.isHold = TRUE]
      At(k) == IF k = pitch
               THEN [i \in 1..Len(state.oscillators[k]) |->
                       LET osc == state.oscillators[k][i]
                       IN IF osc.isNoteOff THEN osc
                          ELSE IF state.hold THEN Hold(osc) ELSE OscNoteOff(osc)]
               ELSE state.oscillators[k]
  IN IF pitch \notin Keys THEN st
     ELSE SetChannel(st, channel, [state EXCEPT !.oscillators = [k \in Keys |-> At(k)]])

programChange(st0, channel, value) ==
  LET st == getChannelState(st0, channel)
  IN SetChannel(st, channel, [st.channels[channel] EXCEPT !.instrument = value])

\* setPitchBendSensitivity gone wrong: the value is taken only once a
\* data-entry LSB has been stored for the channel
setPitchBendSensitivityAfterLsb(st0, channel, value) ==
  LET st == getChannelState(st0, channel)
  IN IF st.rpnEvents[channel].dataLSB = Undef THEN st
     ELSE SetChannel(st, channel, [st.channels[channel] EXCEPT !.pitchBendSensitivity = value])

setPitchBendSensitivity(st0, channel, value) ==
  LET st == getChannelState(st0, channel)
  IN SetChannel(st, channel, [st.channels[channel] EXCEPT !.pitchBendSensitivity = value])

\* an exception leaves the operation under way: by names the read that threw
Raise(st, by) == [st EXCEPT !.thrown = TRUE, !.raised = Append(@, by)]

\* an event queued without a midi payload: e.midi is undefined
NoPayload(e) == e.midi = NoMidi

\* removeScheduledEvents gone wrong: the batch already popped is forgotten
removeQueuedOnly(st, channel) ==
  [st EXCEPT !.scheduledEvents = SelectSeq(@, LAMBDA e : e.midi.channel # channel)]

\* the two filters read e.midi.channel of every queued event, one after the
\* other: the first event without a midi payload ends the call with a
\* TypeError, the assignment under way not made
removeScheduledEvents(st, channel) ==
  LET Other(e) == e.midi.channel # channel
      filtered == [st EXCEPT !.scheduledEvents = SelectSeq(@, Other)]
  IN IF \E i \in DOMAIN st.scheduledEvents : NoPayload(st.scheduledEvents[i])
     THEN Raise(st, "removeScheduledEvents")
     ELSE IF \E i \in DOMAIN st.currentEvents : NoPayload(st.currentEvents[i])
     THEN Raise(filtered, "removeScheduledEvents")
     ELSE [filtered EXCEPT !.currentEvents = SelectSeq(@, Other)]

\* allSoundsOff gone wrong: the voices are released, not stopped
allSoundsOffReleases(st0, channel) ==
  LET st == removeScheduledEvents(getChannelState(st0, channel), channel)
  IN SetChannel(st, channel,
                MapOscillators(st.channels[channel],
                               [osc \in Voices(st.channels[channel]) |-> OscNoteOff(osc)]))

allSoundsOff(st0, channel) ==
  LET removed == removeScheduledEvents(st0, channel)
      st == getChannelState(removed, channel)
  IN IF removed.thrown THEN removed
     ELSE SetChannel(st, channel,
                     MapOscillators(st.channels[channel],
                                    [osc \in Voices(st.channels[channel]) |->
                                       OscForceStop(osc)]))

allNotesOff(st0, channel) ==
  LET st == getChannelState(st0, channel)
  IN SetChannel(st, channel,
                MapOscillators(st.channels[channel],
                               [osc \in Voices(st.channels[channel]) |-> OscNoteOff(osc)]))

hold(st0, channel, value) ==
  LET st == getChannelState(st0, channel)
      on == value >= HoldThreshold
      Release(osc) == IF osc.isHold THEN OscNoteOff(osc) ELSE osc
      state == [st.channels[channel] EXCEPT !.hold = on]
  IN IF on THEN SetChannel(st, channel, state)
     ELSE SetChannel(st, channel,
                     MapOscillators(state, [osc \in Voices(state) |-> Release(osc)]))

\* bankSelect gone wrong: the bank is cut to seven bits
bankSelectLow(st0, channel, value) ==
  LET st == getChannelState(st0, channel)
  IN SetChannel(st, channel, [st.channels[channel] EXCEPT !.bank = value % 128])

bankSelect(st0, channel, value) ==
  LET st == getChannelState(st0, channel)
  IN SetChannel(st, channel, [st.channels[channel] EXCEPT !.bank = value])

\* resetChannel gone wrong: every channel is deleted
resetChannelAll(st, channel) == [st EXCEPT !.channels = <<>>]

\* resetChannel gone wrong: the attributes are reset, the voices stay
resetChannelKeepsVoices(st, channel) ==
  IF channel \in DOMAIN st.channels
  THEN SetChannel(st, channel,
         [initialChannelState EXCEPT !.oscillators = st.channels[channel].oscillators])
  ELSE st

\* delete this.channels[channel]
resetChannel(st, channel) ==
  [st EXCEPT !.channels = [c \in DOMAIN st.channels \ {channel} |-> st.channels[c]]]

\* setReverb gone wrong: the amount is not clamped
setReverbUnclamped(st, amount) ==
  [st EXCEPT !.wetLevel = amount, !.dryLevel = 100 - amount * 7]

\* ReverbProcessor.setReverb, amount and wetLevel in tenths, dryLevel in
\* hundredths
setReverb(st, amount) ==
  LET wet == Max(0, Min(10, amount))
  IN [st EXCEPT !.wetLevel = wet, !.dryLevel = 100 - wet * 7]


pitchBend(st0, channel, value) ==
  LET st == getChannelState(st0, channel)
  IN SetChannel(st, channel,
                [st.channels[channel] EXCEPT
                   !.pitchBend = (value - 8192) * st.channels[channel].pitchBendSensitivity])

setMainVolume(st0, channel, value) ==
  LET st == getChannelState(st0, channel)
  IN SetChannel(st, channel, [st.channels[channel] EXCEPT !.volume = value])

expression(st0, channel, value) ==
  LET st == getChannelState(st0, channel)
  IN SetChannel(st, channel, [st.channels[channel] EXCEPT !.expression = value])

setPan(st0, channel, value) ==
  LET st == getChannelState(st0, channel)
  IN SetChannel(st, channel, [st.channels[channel] EXCEPT !.pan = 2 * value - 127])

modulation(st0, channel, value) ==
  LET st == getChannelState(st0, channel)
  IN SetChannel(st, channel, [st.channels[channel] EXCEPT !.modulation = value])

\* SampleTable.addSample through the core
addSample(st, sampleID) == [st EXCEPT !.samples = @ \cup {sampleID}]

coreAddSampleParameter(st, parameter, range) ==
  [st EXCEPT !.sampleParameters = addSampleParameter(@, parameter, range)]

(***************************************************************************)
(* SynthEventHandler.                                                      *)
(***************************************************************************)
NoRpn == [rpnMSB |-> Undef, rpnLSB |-> Undef, dataMSB |-> Undef, dataLSB |-> Undef]

handleImmediateEvent(st, e) ==
  CASE e.type = "sampleParameter" -> coreAddSampleParameter(st, e.parameter, e.range)
    [] e.type = "loadSample" -> addSample(st, e.sampleID)
    [] e.type = "reverbControl" -> setReverb(st, e.amount)
    [] OTHER -> st

\* this.rpnEvents[channel] = rpn
SetRpn(st, channel, rpn) ==
  [st EXCEPT !.rpnEvents = [c \in DOMAIN st.rpnEvents |->
                              IF c = channel THEN rpn ELSE st.rpnEvents[c]]]

handleController(st, e) ==
  LET c == e.channel
      t == e.controllerType
      old == st.rpnEvents[c]
  IN CASE t \in {NONREG_PARM_NUM_MSB, NONREG_PARM_NUM_LSB} -> SetRpn(st, c, NoRpn)
       [] t = REGIST_PARM_NUM_MSB ->
            IF e.value = 127 THEN SetRpn(st, c, NoRpn)
            ELSE SetRpn(st, c, [old EXCEPT !.rpnMSB = e.value])
       [] t = REGIST_PARM_NUM_LSB ->
            IF e.value = 127 THEN SetRpn(st, c, NoRpn)
            ELSE SetRpn(st, c, [old EXCEPT !.rpnLSB = e.value])
       [] t = MSB_DATA_ENTRY ->
            LET rpn == [old EXCEPT !.dataMSB = e.value]
            IN IF rpn.rpnLSB = 0
               THEN setPitchBendSensitivity(SetRpn(st, c, rpn), c, e.value)
               ELSE SetRpn(st, c, rpn)
       [] t = LSB_DATA_ENTRY -> SetRpn(st, c, [old EXCEPT !.dataLSB = e.value])
       [] t = MSB_MAIN_VOLUME -> setMainVolume(st, c, e.value)
       [] t = MSB_EXPRESSION -> expression(st, c, e.value)
       [] t = ALL_SOUNDS_OFF -> allSoundsOff(st, c)
       [] t = ALL_NOTES_OFF -> allNotesOff(st, c)
       [] t = SUSTAIN -> hold(st, c, e.value)
       [] t = MSB_PAN -> setPan(st, c, e.value)
       [] t = MSB_MODWHEEL -> modulation(st, c, e.value)
       [] t = MSB_BANK ->
            [st EXCEPT !.bankSelectMSB = [x \in DOMAIN st.bankSelectMSB |->
                                            IF x = c THEN e.value ELSE st.bankSelectMSB[x]]]
       [] t = LSB_BANK ->
            LET msb == st.bankSelectMSB[c]
            IN IF msb # Undef THEN bankSelect(st, c, msb * 128 + e.value) ELSE st
       [] t = RESET_CONTROLLERS -> resetChannel(st, c)
       [] OTHER -> st

\* handleDelayableEvent gone wrong: a bank-select MSB selects the bank at
\* once, without waiting for the LSB
handleDelayableEventMsbSelects(st, e) ==
  IF e.type # "channel" THEN st
  ELSE CASE e.subtype = "noteOn" -> noteOn(st, e.channel, e.noteNumber, e.velocity)
         [] e.subtype = "noteOff" -> noteOff(st, e.channel, e.noteNumber)
         [] e.subtype = "pitchBend" -> pitchBend(st, e.channel, e.value)
         [] e.subtype = "programChange" -> programChange(st, e.channel, e.value)
         [] e.subtype = "controller" ->
              IF e.controllerType = MSB_BANK
              THEN bankSelect(handleController(st, e), e.channel, e.value * 128)
              ELSE handleController(st, e)
         [] OTHER -> st

\* handleDelayableEvent gone wrong: selecting a non-registered parameter
\* leaves the RPN state of the channel
handleDelayableEventNrpnKeeps(st, e) ==
  IF e.type # "channel" THEN st
  ELSE CASE e.subtype = "noteOn" -> noteOn(st, e.channel, e.noteNumber, e.velocity)
         [] e.subtype = "noteOff" -> noteOff(st, e.channel, e.noteNumber)
         [] e.subtype = "pitchBend" -> pitchBend(st, e.channel, e.value)
         [] e.subtype = "programChange" -> programChange(st, e.channel, e.value)
         [] e.subtype = "controller" ->
              IF e.controllerType \in {NONREG_PARM_NUM_MSB, NONREG_PARM_NUM_LSB}
              THEN st
              ELSE handleController(st, e)
         [] OTHER -> st

handleDelayableEvent(st, e) ==
  IF e.type # "channel" THEN st
  ELSE CASE e.subtype = "noteOn" -> noteOn(st, e.channel, e.noteNumber, e.velocity)
         [] e.subtype = "noteOff" -> noteOff(st, e.channel, e.noteNumber)
         [] e.subtype = "pitchBend" -> pitchBend(st, e.channel, e.value)
         [] e.subtype = "programChange" -> programChange(st, e.channel, e.value)
         [] e.subtype = "controller" -> handleController(st, e)
         [] OTHER -> st

(***************************************************************************)
(* SynthEventScheduler: addEvent and processScheduledEvents.  The history  *)
(* fields of st record what the callbacks were given: immediate and        *)
(* dispatched list the calls, steps keeps the engine before and after each *)
(* generic event.                                                          *)
(***************************************************************************)
\* what a step keeps of the engine
View(st) ==
  [channels |-> st.channels, scheduledEvents |-> st.scheduledEvents,
   scheduledReverbEvents |-> st.scheduledReverbEvents,
   currentEvents |-> st.currentEvents, bankSelectMSB |-> st.bankSelectMSB,
   rpnEvents |-> st.rpnEvents]

onImmediateEvent(st, e, op) ==
  [handleImmediateEvent(st, e) EXCEPT
     !.immediate = Append(@, [eid |-> e.eid, type |-> e.type, op |-> op])]

\* this.onDelayableEvent(e.midi): handleDelayableEvent reads e.type of what it
\* is given, a TypeError when the event has no midi payload
onDelayableEvent(st, e, frame) ==
  LET before == [st EXCEPT !.resolved = <<>>]
      after == IF NoPayload(e) THEN Raise(before, "handleDelayableEvent")
               ELSE handleDelayableEvent(before, e.midi)
  IN [after EXCEPT
        !.dispatched = Append(@, [eid |-> e.eid, scheduledFrame |-> e.scheduledFrame,
                                  sequenceNumber |-> e.sequenceNumber,
                                  delayTime |-> e.delayTime, at |-> frame]),
        !.steps = Append(@, [midi |-> e.midi, eid |-> e.eid, pre |-> View(before),
                             post |-> View(after), resolved |-> after.resolved])]

Scheduled(e, eid, frame) ==
  [type |-> e.type, hasDelay |-> e.hasDelay, delayTime |-> e.delayTime,
   sequenceNumber |-> e.sequenceNumber, midi |-> e.midi, amount |-> e.amount,
   eid |-> eid, scheduledFrame |-> frame + e.delayTime]

Immediate(e, eid) ==
  [type |-> e.type, amount |-> e.amount, parameter |-> e.parameter, range |-> e.range,
   sampleID |-> e.sampleID, eid |-> eid]

\* addEvent gone wrong: a delayTime of 0 is taken for no delay, whatever the
\* event
addEventZeroDelayNow(st, e, eid, frame) ==
  IF e.hasDelay /\ e.delayTime # 0
  THEN IF e.type = "reverbControl"
       THEN [st EXCEPT !.scheduledReverbEvents = insertSorted(@, Scheduled(e, eid, frame))]
       ELSE [st EXCEPT !.scheduledEvents = insertSorted(@, Scheduled(e, eid, frame))]
  ELSE onImmediateEvent(st, Immediate(e, eid), "addEvent")

addEvent(st, e, eid, frame) ==
  IF e.type = "reverbControl"
  THEN IF e.hasDelay /\ e.delayTime > 0
       THEN [st EXCEPT !.scheduledReverbEvents = insertSorted(@, Scheduled(e, eid, frame))]
       ELSE onImmediateEvent(st, Immediate(e, eid), "addEvent")
  ELSE IF e.hasDelay
       THEN [st EXCEPT !.scheduledEvents = insertSorted(@, Scheduled(e, eid, frame))]
       ELSE onImmediateEvent(st, Immediate(e, eid), "addEvent")

\* the first loop of processScheduledEvents
RECURSIVE ProcessReverbEvents(_, _)
ProcessReverbEvents(st, frame) ==
  IF st.scheduledReverbEvents = <<>> THEN st
  ELSE LET e == Head(st.scheduledReverbEvents)
       IN IF e.scheduledFrame > frame THEN st
          ELSE ProcessReverbEvents(
                 onImmediateEvent([st EXCEPT !.scheduledReverbEvents = Tail(@)],
                                  e, "process"),
                 frame)

\* the second loop gone wrong: an event is popped only when the frame has
\* passed its scheduledFrame
RECURSIVE popBeforeFrame(_, _)
popBeforeFrame(st, frame) ==
  IF st.scheduledEvents = <<>> THEN st
  ELSE LET e == Head(st.scheduledEvents)
       IN IF e.scheduledFrame >= frame THEN st
          ELSE popBeforeFrame([st EXCEPT !.scheduledEvents = Tail(@),
                                         !.currentEvents = Append(@, e)], frame)

\* the second loop: due events are moved to currentEvents
RECURSIVE PopDueEvents(_, _)
PopDueEvents(st, frame) ==
  IF st.scheduledEvents = <<>> THEN st
  ELSE LET e == Head(st.scheduledEvents)
       IN IF e.scheduledFrame > frame THEN st
          ELSE PopDueEvents([st EXCEPT !.scheduledEvents = Tail(@),
                                       !.currentEvents = Append(@, e)], frame)

\* the third loop: currentEvents are shifted and handled one by one
RECURSIVE DispatchCurrentEvents(_, _)
DispatchCurrentEvents(st, frame) ==
  IF st.currentEvents = <<>> \/ st.thrown THEN st
  ELSE LET e == Head(st.currentEvents)
       IN DispatchCurrentEvents(
            onDelayableEvent([st EXCEPT !.currentEvents = Tail(@)], e, frame), frame)

processScheduledEvents(st0, frame) ==
  LET st == ProcessReverbEvents(st0, frame)
  IN IF st.scheduledEvents = <<>> THEN st
     ELSE LET popped == PopDueEvents(st, frame)
              sorted == [popped EXCEPT !.currentEvents = Sort(@)]
          IN DispatchCurrentEvents(sorted, frame)

\* the voice loop gone wrong: the voices that stopped playing stay listed
RenderChannelKeepsAll(state) ==
  [state EXCEPT !.oscillators =
     [k \in Keys |-> [i \in 1..Len(state.oscillators[k]) |->
                        OscProcess(state.oscillators[k][i])]]]

\* the voice loop of SynthProcessorCore.process: every voice is rendered, the
\* voices that stopped playing are dropped
RenderChannel(state) ==
  [state EXCEPT !.oscillators =
     [k \in Keys |->
        LET rendered == [i \in 1..Len(state.oscillators[k]) |->
                           OscProcess(state.oscillators[k][i])]
        IN SelectSeq(rendered, OscIsPlaying)]]

\* an exception of processScheduledEvents leaves process before any voice is
\* rendered
process(st0, frame) ==
  LET st == processScheduledEvents(st0, frame)
  IN IF st.thrown THEN st
     ELSE [st EXCEPT !.channels =
             [c \in DOMAIN st.channels |-> RenderChannel(st.channels[c])]]


(***************************************************************************)
(* The state: the engine's fields, the caller's frame counter, and the     *)
(* history of what was submitted and handled.                              *)
(***************************************************************************)
VARIABLES
  currentFrame,            \* the caller's frame counter (getCurrentFrame)
  scheduledEvents,         \* SynthEventScheduler.scheduledEvents
  scheduledReverbEvents,   \* SynthEventScheduler.scheduledReverbEvents
  currentEvents,           \* SynthEventScheduler.currentEvents
  channels,                \* SynthProcessorCore.channels
  rpnEvents,               \* SynthEventHandler.rpnEvents
  bankSelectMSB,           \* SynthEventHandler.bankSelectMSB
  samples,                 \* SampleTable.samples (the ids loaded)
  sampleParameters,        \* SampleTable.sampleParameters
  wetLevel,                \* ReverbProcessor.wetLevel (tenths)
  dryLevel,                \* ReverbProcessor.dryLevel (hundredths)
  nextVid,                 \* history: voices created so far
  submitted,               \* history: the events given to addEvent, in order
  immediate,               \* history: calls of the immediate-event callback
  dispatched,              \* history: calls of the delayable-event callback
  steps,                   \* history: the engine around each generic event
  processed,               \* history: process calls made so far
  raised,                  \* history: the exceptions process calls ended with
  envelope,                \* one AmplitudeEnvelope, driven through its methods
  envelopeCalls,           \* history: the calls made on it and what they returned
  voice,                   \* one WavetableOscillator, driven through its methods
  voiceCalls,              \* history: the calls made on it, frame by frame
  render,                  \* renderAudio: its loop counters, the cancel predicate, its outcome
  reverb,                  \* ReverbProcessor: its delay lines, and its last process call
  player                   \* MIDIPlayer: its timer, its transpose, what it gave to its output

vars == <<currentFrame, scheduledEvents, scheduledReverbEvents, currentEvents, channels,
          rpnEvents, bankSelectMSB, samples, sampleParameters, wetLevel, dryLevel,
          nextVid, submitted, immediate, dispatched, steps, processed, raised,
          envelope, envelopeCalls, voice, voiceCalls, render, reverb, player>>

\* the engine as the operations above take it, a new operation beginning
Engine ==
  [scheduledEvents |-> scheduledEvents, scheduledReverbEvents |-> scheduledReverbEvents,
   currentEvents |-> currentEvents, channels |-> channels, rpnEvents |-> rpnEvents,
   bankSelectMSB |-> bankSelectMSB, samples |-> samples,
   sampleParameters |-> sampleParameters, wetLevel |-> wetLevel, dryLevel |-> dryLevel,
   nextVid |-> nextVid, immediate |-> immediate, dispatched |-> dispatched,
   steps |-> steps, resolved |-> <<>>, raised |-> raised, thrown |-> FALSE]

Becomes(st) ==
  /\ scheduledEvents' = st.scheduledEvents
  /\ scheduledReverbEvents' = st.scheduledReverbEvents
  /\ currentEvents' = st.currentEvents
  /\ channels' = st.channels
  /\ rpnEvents' = st.rpnEvents
  /\ bankSelectMSB' = st.bankSelectMSB
  /\ samples' = st.samples
  /\ sampleParameters' = st.sampleParameters
  /\ wetLevel' = st.wetLevel
  /\ dryLevel' = st.dryLevel
  /\ nextVid' = st.nextVid
  /\ immediate' = st.immediate
  /\ dispatched' = st.dispatched
  /\ steps' = st.steps
  /\ raised' = st.raised

(***************************************************************************)
(* ReverbProcessor.  Samples are integers; the delay lines hold hundredths *)
(* of a sample unit and the outputs are counted in thousandths, a product  *)
(* with a feedback or a gain being cut to a whole hundredth.  The model    *)
(* keeps the first NumDelayLines of the eight delay lines, a few samples   *)
(* long.                                                                   *)
(***************************************************************************)
\* this.delayTimes, in samples
DelayTimes == <<2, 3>>
NumDelayLines == Len(DelayTimes)
\* this.feedbacks and this.gains, in hundredths
Feedbacks == <<70, 65>>
Gains == <<80, 75>>

DelayLineIds == 1..NumDelayLines

\* new ReverbProcessor(sampleRate): the delay lines are zero; no call made yet
NewReverb ==
  [delayLines |-> [d \in DelayLineIds |-> [k \in 1..DelayTimes[d] |-> 0]],
   delayIndices |-> [d \in DelayLineIds |-> 0],
   amount |-> Undef, calls |-> 0, input |-> <<>>, output |-> <<>>, wet |-> Undef,
   amountThen |-> Undef, before |-> <<>>]

RECURSIVE SumGains(_, _)
SumGains(rv, d) ==
  IF d > NumDelayLines THEN 0
  ELSE ((rv.delayLines[d][rv.delayIndices[d] + 1] * Gains[d]) \div 100) + SumGains(rv, d + 1)

\* the body of the loop of ReverbProcessor.process for one sample: the delay
\* lines are read and written, the indices advance, dry and wet are mixed
ReverbSample(rv, wet, dry, l, r) ==
  LET inputSample == (l + r) * 50
      reverbSample == (SumGains(rv, 1) * 3) \div 10
      written == [d \in DelayLineIds |->
                    inputSample
                      + ((rv.delayLines[d][rv.delayIndices[d] + 1] * Feedbacks[d]) \div 100)]
  IN [rv EXCEPT
        !.delayLines = [d \in DelayLineIds |->
                          [k \in 1..DelayTimes[d] |->
                             IF k = rv.delayIndices[d] + 1 THEN written[d]
                             ELSE rv.delayLines[d][k]]],
        !.delayIndices = [d \in DelayLineIds |-> (rv.delayIndices[d] + 1) % DelayTimes[d]],
        !.output = Append(@, <<(l * dry * 10) + (reverbSample * wet),
                               (r * dry * 10) + (reverbSample * wet)>>)]

\* ReverbProcessor.process(leftInput, rightInput, leftOutput, rightOutput),
\* input being the pairs <<leftInput[i], rightInput[i]>>
RECURSIVE ReverbLoop(_, _, _, _, _)
ReverbLoop(rv, wet, dry, input, i) ==
  IF i > Len(input) THEN rv
  ELSE ReverbLoop(ReverbSample(rv, wet, dry, input[i][1], input[i][2]), wet, dry, input,
                  i + 1)

reverbProcess(rv, wet, dry, input) ==
  ReverbLoop([rv EXCEPT !.input = input, !.output = <<>>, !.wet = wet,
                        !.amountThen = rv.amount,
                        !.before = [lines |-> rv.delayLines, indices |-> rv.delayIndices]],
             wet, dry, input, 1)

\* no renderAudio call is under way; the worker that hosts it has no message
\* to handle, has handled no cancel message and has posted nothing
NoRender ==
  [phase |-> "idle", i |-> 0, iterCount |-> 0, allIterCount |-> 0, cancel |-> FALSE,
   polls |-> 0, broke |-> FALSE, lastFrame |-> Undef, length |-> Undef,
   inbox |-> <<>>, sent |-> 0, cancels |-> 0, complete |-> FALSE]

\* no MIDIPlayer has been made
NoPlayer ==
  [made |-> FALSE, interval |-> Undef, timers |-> {}, nextTimer |-> 1, transpose |-> 0,
   position |-> 1, emitted |-> <<>>, calls |-> 0, last |-> "none"]

\* the state after construction
Init ==
  /\ currentFrame = 0
  /\ scheduledEvents = <<>>
  /\ scheduledReverbEvents = <<>>
  /\ currentEvents = <<>>
  /\ channels = <<>>
  /\ rpnEvents = [c \in Channels |-> NoRpn]
  /\ bankSelectMSB = [c \in Channels |-> Undef]
  /\ samples = {}
  /\ sampleParameters = <<>>
  /\ wetLevel = 0
  /\ dryLevel = 100
  /\ nextVid = 1
  /\ submitted = <<>>
  /\ immediate = <<>>
  /\ dispatched = <<>>
  /\ steps = <<>>
  /\ processed = 0
  /\ raised = <<>>
  /\ envelope = NewEnvelope(SoundFont[1].parameter.amplitudeEnvelope)
  /\ envelopeCalls = <<>>
  /\ voice = NewOscillator(0, SoundFont[1].parameter)
  /\ voiceCalls = <<>>
  /\ render = NoRender
  /\ reverb = NewReverb
  /\ player = NoPlayer

\* synth.addEvent(e), the caller having submitted fewer than max events
AddEvent(e, max) ==
  /\ Len(submitted) < max
  /\ Becomes(addEvent(Engine, e, Len(submitted) + 1, currentFrame))
  /\ submitted' = Append(submitted, [event |-> e, frame |-> currentFrame])
  /\ UNCHANGED <<currentFrame, processed, envelope, envelopeCalls, voice, voiceCalls, render,
                 reverb, player>>

\* one turn of the render loop: synth.process(buffer), then the frame counter
\* advances by the buffer size.  An exception of process ends the loop: the
\* counter is not advanced and process is not called again.
ProcessUpTo(max) ==
  /\ currentFrame < max
  /\ raised = <<>>
  /\ Becomes(process(Engine, currentFrame))
  /\ currentFrame' = IF process(Engine, currentFrame).thrown THEN currentFrame
                     ELSE currentFrame + BufferSize
  /\ processed' = processed + 1
  /\ UNCHANGED <<submitted, envelope, envelopeCalls, voice, voiceCalls, render, reverb, player>>

\* a caller numbers an event with a counter of its own (renderAudio, the
\* application) or not at all (MIDIPlayer); the callers' counters are unrelated
SeqChoice == {NoSeq} \cup 1..MaxSeq

(***************************************************************************)
(* Spec: the engine from its construction, driven with events of every     *)
(* kind addEvent tells apart.                                              *)
(***************************************************************************)
SchedMidi ==
  {NoteOnEvent(c, 60, Velocity) : c \in Channels}
    \cup {ControllerEvent(0, ALL_SOUNDS_OFF, 0)}

AddMidi ==
  \E midi \in SchedMidi, d \in -1..MaxDelay, seq \in SeqChoice :
    AddEvent(MidiEvent(midi, d, seq), MaxEvents)

AddReverb ==
  \E d \in {0, MaxDelay} : AddEvent(ReverbControlEvent(5, d, NoSeq), MaxEvents)

AddLoadSample == AddEvent(LoadSampleEvent(1, NoSeq), MaxEvents)

Process == ProcessUpTo(MaxFrame)

Next == AddMidi \/ AddReverb \/ AddLoadSample \/ Process

Spec == Init /\ [][Next]_vars

(***************************************************************************)
(* VoiceSpec: the engine with its sound font loaded, driven with notes of  *)
(* channel 0 and of the rhythm channel and with all-sounds-off.            *)
(***************************************************************************)
RECURSIVE LoadFont(_, _)
LoadFont(table, i) ==
  IF i > Len(SoundFont) THEN table
  ELSE LoadFont(addSampleParameter(table, SoundFont[i].parameter, SoundFont[i].range),
                i + 1)

\* the state after the sound font's loadSample and sampleParameter events
LoadedInit ==
  /\ currentFrame = 0
  /\ scheduledEvents = <<>>
  /\ scheduledReverbEvents = <<>>
  /\ currentEvents = <<>>
  /\ channels = <<>>
  /\ rpnEvents = [c \in Channels |-> NoRpn]
  /\ bankSelectMSB = [c \in Channels |-> Undef]
  /\ samples = SampleIDs
  /\ sampleParameters = LoadFont(<<>>, 1)
  /\ wetLevel = 0
  /\ dryLevel = 100
  /\ nextVid = 1
  /\ submitted = <<>>
  /\ immediate = <<>>
  /\ dispatched = <<>>
  /\ steps = <<>>
  /\ processed = 0
  /\ raised = <<>>
  /\ envelope = NewEnvelope(SoundFont[1].parameter.amplitudeEnvelope)
  /\ envelopeCalls = <<>>
  /\ voice = NewOscillator(0, SoundFont[1].parameter)
  /\ voiceCalls = <<>>
  /\ render = NoRender
  /\ reverb = NewReverb
  /\ player = NoPlayer

VoiceMidi ==
  {NoteOnEvent(0, k, Velocity) : k \in Keys}
    \cup {NoteOnEvent(RHYTHM_CHANNEL, 60, Velocity), ControllerEvent(0, ALL_SOUNDS_OFF, 0)}

AddVoiceMidi ==
  \E midi \in VoiceMidi : AddEvent(MidiEvent(midi, 0, NoSeq), MaxVoiceEvents)

AddLaterNote ==
  \E c \in Channels :
    AddEvent(MidiEvent(NoteOnEvent(c, 60, Velocity), BufferSize, NoSeq), MaxVoiceEvents)

VoiceProcess == ProcessUpTo(MaxVoiceFrame)

VoiceNext == AddVoiceMidi \/ AddLaterNote \/ VoiceProcess

VoiceSpec == LoadedInit /\ [][VoiceNext]_vars

(***************************************************************************)
(* HoldSpec: the engine with its sound font loaded, driven with the notes, *)
(* the hold pedal and all-notes-off of channel 0.                          *)
(***************************************************************************)
HoldMidi ==
  {NoteOnEvent(0, k, Velocity) : k \in Keys}
    \cup {NoteOffEvent(0, 60), ControllerEvent(0, SUSTAIN, 127),
          ControllerEvent(0, SUSTAIN, 0), ControllerEvent(0, ALL_NOTES_OFF, 0)}

AddHoldMidi ==
  \E midi \in HoldMidi : AddEvent(MidiEvent(midi, 0, NoSeq), MaxHoldEvents)

HoldProcess == ProcessUpTo(MaxVoiceFrame)

HoldNext == AddHoldMidi \/ HoldProcess

HoldSpec == LoadedInit /\ [][HoldNext]_vars

(***************************************************************************)
(* BankSpec: the engine with its sound font loaded, driven with bank       *)
(* selects and notes of channel 0 and of the rhythm channel.               *)
(***************************************************************************)
BankMidi ==
  UNION {{ControllerEvent(c, MSB_BANK, 0), ControllerEvent(c, MSB_BANK, 1),
          ControllerEvent(c, LSB_BANK, 0), ControllerEvent(c, LSB_BANK, 1),
          NoteOnEvent(c, 60, Velocity)} : c \in Channels}
    \cup {ControllerEvent(0, RESET_CONTROLLERS, 0)}

AddBankMidi ==
  \E midi \in BankMidi : AddEvent(MidiEvent(midi, 0, NoSeq), MaxBankEvents)

BankProcess == ProcessUpTo(MaxFrame)

BankNext == AddBankMidi \/ BankProcess

BankSpec == LoadedInit /\ [][BankNext]_vars

(***************************************************************************)
(* RpnSpec: the engine driven with the registered and non-registered       *)
(* parameter numbers and the data entries of channel 0, and with a         *)
(* selector and a data entry of the rhythm channel.                        *)
(***************************************************************************)
RpnMidi ==
  {ControllerEvent(0, REGIST_PARM_NUM_LSB, 0), ControllerEvent(0, REGIST_PARM_NUM_LSB, 127),
   ControllerEvent(0, REGIST_PARM_NUM_MSB, 0), ControllerEvent(0, REGIST_PARM_NUM_MSB, 127),
   ControllerEvent(0, NONREG_PARM_NUM_LSB, 0), ControllerEvent(0, NONREG_PARM_NUM_MSB, 0),
   ControllerEvent(0, MSB_DATA_ENTRY, 5), ControllerEvent(0, MSB_DATA_ENTRY, 12),
   ControllerEvent(0, LSB_DATA_ENTRY, 7),
   ControllerEvent(RHYTHM_CHANNEL, REGIST_PARM_NUM_LSB, 0),
   ControllerEvent(RHYTHM_CHANNEL, MSB_DATA_ENTRY, 5)}

AddRpnMidi ==
  \E midi \in RpnMidi : AddEvent(MidiEvent(midi, 0, NoSeq), MaxRpnEvents)

RpnProcess == ProcessUpTo(MaxFrame)

RpnNext == AddRpnMidi \/ RpnProcess

RpnSpec == LoadedInit /\ [][RpnNext]_vars

(***************************************************************************)
(* ChannelSpec: the engine with its sound font loaded, driven with every   *)
(* channel operation on channel 0 while the rhythm channel plays a note    *)
(* and has its volume set.                                                 *)
(***************************************************************************)
ChannelMidi ==
  {NoteOnEvent(0, 60, Velocity), NoteOffEvent(0, 60), PitchBendEvent(0, 9000),
   ProgramChangeEvent(0, 1),
   ControllerEvent(0, REGIST_PARM_NUM_LSB, 0), ControllerEvent(0, MSB_DATA_ENTRY, 5),
   ControllerEvent(0, MSB_MAIN_VOLUME, 64), ControllerEvent(0, MSB_EXPRESSION, 64),
   ControllerEvent(0, ALL_SOUNDS_OFF, 0), ControllerEvent(0, ALL_NOTES_OFF, 0),
   ControllerEvent(0, SUSTAIN, 127), ControllerEvent(0, SUSTAIN, 0),
   ControllerEvent(0, MSB_PAN, 100),
   ControllerEvent(0, MSB_BANK, 1), ControllerEvent(0, LSB_BANK, 1),
   ControllerEvent(0, MSB_MODWHEEL, 64), ControllerEvent(0, RESET_CONTROLLERS, 0),
   NoteOnEvent(RHYTHM_CHANNEL, 60, Velocity),
   ControllerEvent(RHYTHM_CHANNEL, MSB_MAIN_VOLUME, 64)}

AddChannelMidi ==
  \E midi \in ChannelMidi : AddEvent(MidiEvent(midi, 0, NoSeq), MaxChannelEvents)

ChannelProcess == ProcessUpTo(MaxFrame)

ChannelNext == AddChannelMidi \/ ChannelProcess

ChannelSpec == LoadedInit /\ [][ChannelNext]_vars

(***************************************************************************)
(* TableSpec: the engine from its construction, its sample table filled by *)
(* sampleParameter and loadSample events in any order and looked up by     *)
(* notes of channel 0 and of the rhythm channel.                           *)
(***************************************************************************)
\* a parameter that tells its registration by its sampleEnd
TableParam(id, tag) ==
  SampleParam(id, NoClass, EnvParam(1, 0, 1, AmpOne \div 4, 1), "no_loop", 0, 0, tag)

\* the registrations: key ranges of one and of two keys, velocity ranges
\* that end or begin at Velocity, three banks and two instruments
TableChoices ==
  { [parameter |-> TableParam(1, 11), range |-> SampleRange(0, 0, 60, 61, 0, 127)],
    [parameter |-> TableParam(2, 12), range |-> SampleRange(0, 0, 60, 60, 0, Velocity)],
    [parameter |-> TableParam(1, 13), range |-> SampleRange(0, 0, 61, 61, 0, 127)],
    [parameter |-> TableParam(2, 14),
     range |-> SampleRange(RHYTHM_BANK, 0, 60, 61, Velocity, 127)],
    [parameter |-> TableParam(1, 15), range |-> SampleRange(RHYTHM_BANK, 1, 60, 60, 0, 127)],
    [parameter |-> TableParam(2, 16), range |-> SampleRange(0, 1, 60, 61, 0, 127)],
    [parameter |-> TableParam(1, 17), range |-> SampleRange(1, 0, 61, 61, 0, 127)] }

AddTableParameter ==
  \E sp \in TableChoices : AddEvent(SampleParameterEvent(sp, NoSeq), MaxTableEvents)

AddTableSample ==
  \E id \in {1, 2} : AddEvent(LoadSampleEvent(id, NoSeq), MaxTableEvents)

TableMidi ==
  {NoteOnEvent(0, k, Velocity) : k \in Keys} \cup {NoteOnEvent(RHYTHM_CHANNEL, 60, Velocity)}

AddTableMidi ==
  \E midi \in TableMidi : AddEvent(MidiEvent(midi, 0, NoSeq), MaxTableEvents)

TableProcess == ProcessUpTo(MaxFrame)

TableNext == AddTableParameter \/ AddTableSample \/ AddTableMidi \/ TableProcess

TableSpec == Init /\ [][TableNext]_vars

(***************************************************************************)
(* EnvelopeSpec: one AmplitudeEnvelope driven the way a voice drives it.   *)
(* The voice makes it with its sample's parameter and calls noteOn; from   *)
(* then on getAmplitude (once a buffer), noteOff and forceStop reach it in *)
(* any order.  Times are whole buffers of at least one, levels at most 1.  *)
(***************************************************************************)
MaxEnvelopeCalls == 9

EnvelopeChoices ==
  {EnvParam(a, h, d, s, r) :
     a \in 1..2, h \in 0..1, d \in 1..2, s \in {0, AmpOne \div 2}, r \in 1..2}

engineVars == <<currentFrame, scheduledEvents, scheduledReverbEvents, currentEvents,
                channels, rpnEvents, bankSelectMSB, samples, sampleParameters, wetLevel,
                dryLevel, nextVid, submitted, immediate, dispatched, steps, processed,
                raised>>

\* new AmplitudeEnvelope(sample.amplitudeEnvelope, sampleRate), the engine idle
EnvelopeInit ==
  /\ currentFrame = 0
  /\ scheduledEvents = <<>>
  /\ scheduledReverbEvents = <<>>
  /\ currentEvents = <<>>
  /\ channels = <<>>
  /\ rpnEvents = [c \in Channels |-> NoRpn]
  /\ bankSelectMSB = [c \in Channels |-> Undef]
  /\ samples = {}
  /\ sampleParameters = <<>>
  /\ wetLevel = 0
  /\ dryLevel = 100
  /\ nextVid = 1
  /\ submitted = <<>>
  /\ immediate = <<>>
  /\ dispatched = <<>>
  /\ steps = <<>>
  /\ processed = 0
  /\ raised = <<>>
  /\ envelope \in {NewEnvelope(parameter) : parameter \in EnvelopeChoices}
  /\ envelopeCalls = <<>>
  /\ voice = NewOscillator(0, SoundFont[1].parameter)
  /\ voiceCalls = <<>>
  /\ render = NoRender
  /\ reverb = NewReverb
  /\ player = NoPlayer

\* a call of the envelope's method op that leaves it as env and returns value
EnvelopeCall(op, env, value) ==
  /\ Len(envelopeCalls) < MaxEnvelopeCalls
  /\ envelope' = env
  /\ envelopeCalls' = Append(envelopeCalls,
                             [op |-> op, before |-> envelope, after |-> env,
                              value |-> value])
  /\ UNCHANGED <<engineVars, voice, voiceCalls, render, reverb, player>>

\* WavetableOscillator.noteOn: this.envelope.noteOn(), once, the voice just made
EnvNoteOn ==
  /\ envelopeCalls = <<>>
  /\ EnvelopeCall("noteOn", EnvelopeNoteOn(envelope), Undef)

\* WavetableOscillator.process: gain = this.envelope.getAmplitude(bufferSize)
EnvGetAmplitude ==
  /\ envelopeCalls # <<>>
  /\ LET env == getAmplitude(envelope)
     IN EnvelopeCall("getAmplitude", env, env.lastAmplitude)

\* WavetableOscillator.noteOff: this.envelope.noteOff()
EnvNoteOff ==
  /\ envelopeCalls # <<>>
  /\ EnvelopeCall("noteOff", EnvelopeNoteOff(envelope), Undef)

\* WavetableOscillator.forceStop: this.envelope.forceStop()
EnvForceStop ==
  /\ envelopeCalls # <<>>
  /\ EnvelopeCall("forceStop", EnvelopeForceStop(envelope), Undef)

EnvelopeNext == EnvNoteOn \/ EnvGetAmplitude \/ EnvNoteOff \/ EnvForceStop

EnvelopeSpec == EnvelopeInit /\ [][EnvelopeNext]_vars

\* the render loop calls process for every buffer, and process asks every
\* voice it holds for its gain: getAmplitude is not put off for ever
EnvelopeLiveSpec == EnvelopeSpec /\ WF_vars(EnvGetAmplitude)

(***************************************************************************)
(* AcceptSpec: the engine with its sound font loaded, given events of      *)
(* every type addEvent accepts, with and without a delayTime, with and     *)
(* without a midi payload.                                                 *)
(***************************************************************************)
AcceptEvents ==
  {MidiEvent(NoteOnEvent(0, 60, Velocity), 0, NoSeq),
   MidiEvent(ControllerEvent(0, ALL_SOUNDS_OFF, 0), 0, NoSeq),
   MidiEvent(ControllerEvent(0, ALL_SOUNDS_OFF, 0), BufferSize, NoSeq),
   UndelayedMidiEvent(NoteOnEvent(0, 60, Velocity), NoSeq),
   LoadSampleEvent(1, NoSeq),
   DelayedLoadSampleEvent(1, 0, NoSeq),
   DelayedLoadSampleEvent(1, 2 * BufferSize, NoSeq),
   ReverbControlEvent(5, 0, NoSeq),
   ReverbControlEvent(5, BufferSize, NoSeq)}

AddAccepted == \E e \in AcceptEvents : AddEvent(e, MaxAcceptEvents)

AcceptProcess == ProcessUpTo(MaxFrame)

AcceptNext == AddAccepted \/ AcceptProcess

AcceptSpec == LoadedInit /\ [][AcceptNext]_vars

(***************************************************************************)
(* LoopSpec: one WavetableOscillator driven the way a channel drives it.   *)
(* It is made with a sample and gets noteOn; while it plays, process       *)
(* renders it buffer after buffer, a note-off reaches it, or the pedal     *)
(* marks it held.  Once it no longer plays process drops it.  The speed is *)
(* the voice's own: half, once, one and a half and two and a half samples  *)
(* a frame.  The calls come in any order up to MaxVoiceCalls; the render   *)
(* loop then goes on for MaxPlayOut buffers more.                          *)
(***************************************************************************)
MaxVoiceCalls == 5
MaxPlayOut == 5

LoopSamples ==
  {SampleParam(1, NoClass, EnvParam(1, 0, 1, AmpOne \div 2, r), type, lp[1], lp[2], sEnd) :
     r \in {1, 4}, type \in {"loop_continuous", "loop_sustain", "no_loop"},
     lp \in {<<0, 2>>, <<1, 3>>}, sEnd \in {3, 4}}

LoopSpeeds == {1, 2, 3, 5}

\* new WavetableOscillator(sample, sampleRate), the engine idle
LoopInit ==
  /\ currentFrame = 0
  /\ scheduledEvents = <<>>
  /\ scheduledReverbEvents = <<>>
  /\ currentEvents = <<>>
  /\ channels = <<>>
  /\ rpnEvents = [c \in Channels |-> NoRpn]
  /\ bankSelectMSB = [c \in Channels |-> Undef]
  /\ samples = {}
  /\ sampleParameters = <<>>
  /\ wetLevel = 0
  /\ dryLevel = 100
  /\ nextVid = 1
  /\ submitted = <<>>
  /\ immediate = <<>>
  /\ dispatched = <<>>
  /\ steps = <<>>
  /\ processed = 0
  /\ raised = <<>>
  /\ envelope = NewEnvelope(SoundFont[1].parameter.amplitudeEnvelope)
  /\ envelopeCalls = <<>>
  /\ voice \in {[NewOscillator(1, sample) EXCEPT !.speed = speed] :
                  sample \in LoopSamples, speed \in LoopSpeeds}
  /\ voiceCalls = <<>>
  /\ render = NoRender
  /\ reverb = NewReverb
  /\ player = NoPlayer

\* a call of the voice's method op that leaves it as osc; frames is the voice
\* after each frame of the buffer when op is process
VoiceCall(op, osc, frames) ==
  /\ Len(voiceCalls) < MaxVoiceCalls + (IF op = "process" THEN MaxPlayOut ELSE 0)
  /\ voice' = osc
  /\ voiceCalls' = Append(voiceCalls,
                          [op |-> op, before |-> voice, after |-> osc, frames |-> frames])
  /\ UNCHANGED <<engineVars, envelope, envelopeCalls, render, reverb, player>>

\* SynthProcessorCore.noteOn: oscillator.noteOn(pitch, velocity / 127)
LoopNoteOn ==
  /\ voiceCalls = <<>>
  /\ render = NoRender
  /\ reverb = NewReverb
  /\ player = NoPlayer
  /\ VoiceCall("noteOn", OscNoteOn(voice, AmpOne), <<>>)

\* SynthProcessorCore.process: oscillator.process([dryLeft, dryRight])
LoopRender ==
  /\ OscIsPlaying(voice)
  /\ LET prepared == [voice EXCEPT !.envelope = getAmplitude(voice.envelope)]
     IN VoiceCall("process", OscProcess(voice),
                  [k \in 1..BufferSize |-> Advance(prepared, k)])

\* SynthProcessorCore.noteOff, the pedal up, and hold, the pedal going up:
\* osc.noteOff(), for a voice that has not had it
LoopNoteOff ==
  /\ OscIsPlaying(voice)
  /\ ~voice.isNoteOff
  /\ VoiceCall("noteOff", OscNoteOff(voice), <<>>)

\* SynthProcessorCore.noteOff, the pedal down: osc.isHold = true
LoopHold ==
  /\ OscIsPlaying(voice)
  /\ ~voice.isNoteOff
  /\ ~voice.isHold
  /\ VoiceCall("hold", [voice EXCEPT !.isHold = TRUE], <<>>)

LoopNext == LoopNoteOn \/ LoopRender \/ LoopNoteOff \/ LoopHold

LoopSpec == LoopInit /\ [][LoopNext]_vars

\* the render loop calls process for every buffer, and process renders every
\* voice of every list
LoopLiveSpec == LoopSpec /\ WF_vars(LoopRender)

(***************************************************************************)
(* ReleaseSpec: the engine with its sound font loaded, given note-ons,     *)
(* note-offs and the pedal during the first buffers, and rendered on until *)
(* the notes have played out.                                              *)
(***************************************************************************)
ReleaseMidi ==
  {NoteOnEvent(0, k, Velocity) : k \in Keys}
    \cup {NoteOffEvent(0, k) : k \in Keys}
    \cup {ControllerEvent(0, SUSTAIN, 127)}

AddReleaseMidi ==
  /\ currentFrame <= MaxSubmitFrame
  /\ \E midi \in ReleaseMidi : AddEvent(MidiEvent(midi, 0, NoSeq), MaxReleaseEvents)

ReleaseProcess == ProcessUpTo(MaxReleaseFrame)

ReleaseNext == AddReleaseMidi \/ ReleaseProcess

ReleaseSpec == LoadedInit /\ [][ReleaseNext]_vars

\* a turn of the render loop told by its guard and its count: ReleaseProcess
\* is the one action that counts processed up
ReleaseTurn ==
  /\ currentFrame < MaxReleaseFrame
  /\ raised = <<>>
  /\ processed' = processed + 1

\* the render loop calls process for every buffer: ReleaseProcess is not put
\* off for ever
ReleaseLiveSpec == ReleaseSpec /\ WF_processed(ReleaseTurn)

(***************************************************************************)
(* PlayingSpec: the engine with its sound font loaded, driven with every   *)
(* operation that touches the voices of channel 0: notes, the pedal,       *)
(* all-notes-off and all-sounds-off.                                       *)
(***************************************************************************)
PlayingMidi ==
  {NoteOnEvent(0, k, Velocity) : k \in Keys}
    \cup {NoteOffEvent(0, 60), ControllerEvent(0, SUSTAIN, 127),
          ControllerEvent(0, SUSTAIN, 0), ControllerEvent(0, ALL_NOTES_OFF, 0),
          ControllerEvent(0, ALL_SOUNDS_OFF, 0)}

AddPlayingMidi ==
  \E midi \in PlayingMidi : AddEvent(MidiEvent(midi, 0, NoSeq), MaxPlayingEvents)

PlayingProcess == ProcessUpTo(MaxPlayingFrame)

PlayingNext == AddPlayingMidi \/ PlayingProcess

PlayingSpec == LoadedInit /\ [][PlayingNext]_vars

(***************************************************************************)
(* LayerSpec: the engine with its two samples loaded and an empty table;   *)
(* sampleParameter events register layered samples whose exclusive classes *)
(* are equal, different or absent, and notes of channel 0 look them up.    *)
(***************************************************************************)
\* a parameter with an exclusive class that tells its registration by its
\* sampleEnd
LayerParam(id, cls, tag) ==
  SampleParam(id, cls, EnvParam(1, 0, 1, AmpOne \div 4, 1), "no_loop", 0, 0, tag)

LayerChoices ==
  { [parameter |-> LayerParam(1, 1, 21), range |-> SampleRange(0, 0, 60, 60, 0, 127)],
    [parameter |-> LayerParam(2, 1, 22), range |-> SampleRange(0, 0, 60, 61, 0, 127)],
    [parameter |-> LayerParam(1, 2, 23), range |-> SampleRange(0, 0, 60, 61, 0, 127)],
    [parameter |-> LayerParam(2, NoClass, 24), range |-> SampleRange(0, 0, 61, 61, 0, 127)] }

\* the state after the loadSample events, before any sampleParameter event
LayerInit ==
  /\ currentFrame = 0
  /\ scheduledEvents = <<>>
  /\ scheduledReverbEvents = <<>>
  /\ currentEvents = <<>>
  /\ channels = <<>>
  /\ rpnEvents = [c \in Channels |-> NoRpn]
  /\ bankSelectMSB = [c \in Channels |-> Undef]
  /\ samples = SampleIDs
  /\ sampleParameters = <<>>
  /\ wetLevel = 0
  /\ dryLevel = 100
  /\ nextVid = 1
  /\ submitted = <<>>
  /\ immediate = <<>>
  /\ dispatched = <<>>
  /\ steps = <<>>
  /\ processed = 0
  /\ raised = <<>>
  /\ envelope = NewEnvelope(SoundFont[1].parameter.amplitudeEnvelope)
  /\ envelopeCalls = <<>>
  /\ voice = NewOscillator(0, SoundFont[1].parameter)
  /\ voiceCalls = <<>>
  /\ render = NoRender
  /\ reverb = NewReverb
  /\ player = NoPlayer

AddLayerParameter ==
  \E sp \in LayerChoices : AddEvent(SampleParameterEvent(sp, NoSeq), MaxLayerEvents)

AddLayerMidi ==
  \E k \in Keys : AddEvent(MidiEvent(NoteOnEvent(0, k, Velocity), 0, NoSeq), MaxLayerEvents)

LayerProcess == ProcessUpTo(MaxFrame)

LayerNext == AddLayerParameter \/ AddLayerMidi \/ LayerProcess

LayerSpec == LayerInit /\ [][LayerNext]_vars

(***************************************************************************)
(* OrderSpec: the engine with its sound font loaded, given unnumbered      *)
(* events as MIDIPlayer emits them: notes of two channels and              *)
(* all-sounds-off with several delays, reverb amounts with positive        *)
(* delays.                                                                 *)
(***************************************************************************)
OrderMidi ==
  {NoteOnEvent(0, 60, Velocity), NoteOnEvent(RHYTHM_CHANNEL, 60, Velocity),
   ControllerEvent(0, ALL_SOUNDS_OFF, 0)}

OrderDelays == {0, 1, 3}

OrderAmounts == {5, 10}

AddOrderMidi ==
  \E midi \in OrderMidi, d \in OrderDelays :
    AddEvent(MidiEvent(midi, d, NoSeq), MaxOrderEvents)

AddOrderReverb ==
  \E a \in OrderAmounts, d \in OrderDelays \ {0} :
    AddEvent(ReverbControlEvent(a, d, NoSeq), MaxOrderEvents)

OrderProcess == ProcessUpTo(MaxFrame)

OrderNext == AddOrderMidi \/ AddOrderReverb \/ OrderProcess

OrderSpec == LoadedInit /\ [][OrderNext]_vars

(***************************************************************************)
(* MIDIPlayer.  Its output callback is wired to synth.addEvent; its        *)
(* EventScheduler is taken by what MIDIPlayer uses of it: readNextEvents   *)
(* yields the song's next events in tick order, the song is over once its  *)
(* end-of-track event was read, seek moves the reading position.  Delays   *)
(* are in frames, one frame a tick.                                        *)
(***************************************************************************)
\* for (let i = 0; i < 16; i++)
PlayerChannels == 0..15

\* the values given to setTranspose
TransposeChoices == {-1, 0, 1}

EndOfTrack == [NoMidi EXCEPT !.type = "meta", !.subtype = "endOfTrack"]

\* this.tickedEvents: two notes, the second one at the top of the key range
PlayerSong ==
  << [tick |-> 0, event |-> NoteOnEvent(0, 60, Velocity)],
     [tick |-> 1, event |-> NoteOffEvent(0, 60)],
     [tick |-> 1, event |-> NoteOnEvent(0, 127, Velocity)],
     [tick |-> 2, event |-> NoteOffEvent(0, 127)],
     [tick |-> 2, event |-> EndOfTrack] >>

\* the positions seek is given
SeekChoices == {1, 3}

\* return null
NoSynthEvent == [type |-> "null"]

\* handleEvent gone wrong: a note-off is passed on untransposed
handleEventNoteOnOnly(p, e, delayTime) ==
  IF e.type = "channel"
  THEN IF e.subtype = "noteOn" /\ p.transpose # 0
       THEN MidiEvent([e EXCEPT !.noteNumber = Max(0, Min(127, e.noteNumber + p.transpose))],
                      delayTime, NoSeq)
       ELSE MidiEvent(e, delayTime, NoSeq)
  ELSE NoSynthEvent

\* MIDIPlayer.handleEvent: the synth event for a song event, null for a meta
\* event
handleEvent(p, e, delayTime) ==
  IF e.type = "channel"
  THEN IF e.subtype \in {"noteOn", "noteOff"} /\ p.transpose # 0
       THEN MidiEvent([e EXCEPT !.noteNumber = Max(0, Min(127, e.noteNumber + p.transpose))],
                      delayTime, NoSeq)
       ELSE MidiEvent(e, delayTime, NoSeq)
  ELSE NoSynthEvent

\* this.output(e): e goes to the synth; source is the song event it came from
Output(p, e, source) == [p EXCEPT !.emitted = Append(@, [event |-> e, source |-> source])]

\* the loops of allSoundsOff and resetControllers, from channel i
RECURSIVE ControlAll(_, _, _)
ControlAll(p, controllerType, i) ==
  IF i \notin PlayerChannels THEN p
  ELSE ControlAll(Output(p, MidiEvent(ControllerEvent(i, controllerType, 0), 0, NoSeq), 0),
                  controllerType, i + 1)

playerAllSoundsOff(p) == ControlAll(p, ALL_SOUNDS_OFF, 0)

resetControllers(p) == ControlAll(p, RESET_CONTROLLERS, 0)

\* window.setInterval and clearInterval: the timers the window holds
setInterval(p) ==
  [p EXCEPT !.timers = @ \cup {p.nextTimer}, !.interval = p.nextTimer, !.nextTimer = @ + 1]

clearInterval(p, id) == [p EXCEPT !.timers = @ \ {id}]

\* resume gone wrong: a timer is started whether one is active or not
resumeAlways(p) == setInterval(p)

resume(p) == IF p.interval = Undef THEN setInterval(p) ELSE p

pause(p) == playerAllSoundsOff([clearInterval(p, p.interval) EXCEPT !.interval = Undef])

stop(p) == [resetControllers(pause(p)) EXCEPT !.position = 1]

seek(p, position) == [playerAllSoundsOff(p) EXCEPT !.position = position]

setTranspose(p, semitones) == [p EXCEPT !.transpose = semitones]

\* events.forEach of onTimer over the n events read from position first on
RECURSIVE SendEvents(_, _, _, _)
SendEvents(p, first, n, i) ==
  IF i >= first + n THEN p
  ELSE LET synthEvent == handleEvent(p, PlayerSong[i].event,
                                     PlayerSong[i].tick - PlayerSong[first].tick)
       IN SendEvents(IF synthEvent # NoSynthEvent THEN Output(p, synthEvent, i) ELSE p,
                     first, n, i + 1)

\* onTimer, readNextEvents having yielded n events: they are sent, and the
\* timer is cleared when the song is over
onTimer(p, n) ==
  LET sent == [SendEvents(p, p.position, n, p.position) EXCEPT !.position = @ + n]
  IN IF sent.position > Len(PlayerSong)
     THEN [clearInterval(sent, sent.interval) EXCEPT !.interval = Undef]
     ELSE sent

\* the events p gave to its output since before, added to the synth one by one
RECURSIVE AddEmitted(_, _, _, _)
AddEmitted(st, p, before, k) ==
  IF before + k > Len(p.emitted) THEN st
  ELSE AddEmitted(addEvent(st, p.emitted[before + k].event, Len(submitted) + k, currentFrame),
                  p, before, k + 1)

\* a call on the player that turns it into p, with what it gave to its output
PlayerCall(p, name) ==
  LET before == Len(player.emitted)
  IN /\ player' = [p EXCEPT !.calls = @ + 1, !.last = name]
     /\ Becomes(AddEmitted(Engine, p, before, 1))
     /\ submitted' = submitted \o [k \in 1..(Len(p.emitted) - before) |->
                                     [event |-> p.emitted[before + k].event,
                                      frame |-> currentFrame]]
     /\ UNCHANGED <<currentFrame, processed, envelope, envelopeCalls, voice, voiceCalls,
                    render, reverb>>

\* new MIDIPlayer(midi, sampleRate, output): the constructor resets the
\* controllers
NewMIDIPlayer ==
  /\ ~player.made
  /\ PlayerCall([resetControllers(player) EXCEPT !.made = TRUE, !.calls = @ - 1], "new")

PlayerReady == player.made /\ player.calls < MaxPlayerCalls

Resume == PlayerReady /\ PlayerCall(resume(player), "resume")

Pause == PlayerReady /\ PlayerCall(pause(player), "pause")

Stop == PlayerReady /\ PlayerCall(stop(player), "stop")

Seek == PlayerReady /\ \E position \in SeekChoices : PlayerCall(seek(player, position), "seek")

SetTranspose ==
  PlayerReady /\ \E semitones \in TransposeChoices :
                   PlayerCall(setTranspose(player, semitones), "setTranspose")

\* a timer the window holds fires
OnTimer ==
  /\ PlayerReady
  /\ player.timers # {}
  /\ \E n \in 0..Min(MaxRead, Len(PlayerSong) + 1 - player.position) :
       PlayerCall(onTimer(player, n), "onTimer")

(***************************************************************************)
(* TimerSpec: a MIDIPlayer made, then resumed, paused, stopped and sought  *)
(* in any order while its timer ticks.                                     *)
(***************************************************************************)
TimerNext == NewMIDIPlayer \/ Resume \/ Pause \/ Stop \/ Seek \/ OnTimer

TimerSpec == LoadedInit /\ [][TimerNext]_vars

(***************************************************************************)
(* TransposeSpec: a MIDIPlayer plays its song into the engine while the    *)
(* transposition is changed.                                               *)
(***************************************************************************)
TransposeProcess == ProcessUpTo(MaxResetFrame)

TransposeNext == NewMIDIPlayer \/ Resume \/ SetTranspose \/ OnTimer \/ TransposeProcess

TransposeSpec == LoadedInit /\ [][TransposeNext]_vars

(***************************************************************************)
(* ResetSpec: the engine with its sound font loaded, driven with notes and *)
(* channel attributes of channel 0, a note of the rhythm channel, and      *)
(* reset-controllers for channel 0, some of them scheduled for later.      *)
(***************************************************************************)
ResetEvents ==
  {MidiEvent(NoteOnEvent(0, 60, Velocity), 0, NoSeq),
   MidiEvent(NoteOnEvent(0, 61, Velocity), 3, NoSeq),
   MidiEvent(NoteOnEvent(RHYTHM_CHANNEL, 60, Velocity), 0, NoSeq),
   MidiEvent(PitchBendEvent(0, 9000), 0, NoSeq),
   MidiEvent(ControllerEvent(0, SUSTAIN, 127), 0, NoSeq)}
    \cup {MidiEvent(ControllerEvent(0, RESET_CONTROLLERS, 0), d, NoSeq) : d \in {0, 2}}
    \cup {MidiEvent(ControllerEvent(0, MSB_MAIN_VOLUME, 64), d, NoSeq) : d \in {0, 3}}

AddResetEvent == \E e \in ResetEvents : AddEvent(e, MaxResetEvents)

ResetProcess == ProcessUpTo(MaxResetFrame)

ResetNext == AddResetEvent \/ ResetProcess

ResetSpec == LoadedInit /\ [][ResetNext]_vars

(***************************************************************************)
(* ReverbSpec: the reverb processor from its construction, its amount set  *)
(* and buffers of dry samples given to it.                                 *)
(***************************************************************************)
MaxReverbCalls == 4

\* amounts in tenths, below 0 and above 1 among them
ReverbAmounts == {-5, 0, 5, 10, 15}

\* dry samples, left and right
DrySamples == {<<0, 0>>, <<4, 0>>, <<-2, 6>>}

\* this.reverbProcessor.setReverb(amount)
SetReverb ==
  \E amount \in ReverbAmounts :
    /\ reverb.calls < MaxReverbCalls
    /\ Becomes(setReverb(Engine, amount))
    /\ reverb' = [reverb EXCEPT !.amount = amount, !.calls = @ + 1]
    /\ UNCHANGED <<currentFrame, submitted, processed, envelope, envelopeCalls, voice,
                   voiceCalls, render, player>>

\* this.reverbProcessor.process(dryLeft, dryRight, outputs[0], outputs[1])
ReverbProcess ==
  \E input \in [1..BufferSize -> DrySamples] :
    /\ reverb.calls < MaxReverbCalls
    /\ reverb' = [reverbProcess(reverb, wetLevel, dryLevel, input) EXCEPT !.calls = @ + 1]
    /\ UNCHANGED <<engineVars, envelope, envelopeCalls, voice, voiceCalls, render, player>>

ReverbNext == SetReverb \/ ReverbProcess

ReverbSpec == Init /\ [][ReverbNext]_vars

(***************************************************************************)
(* RenderSpec: renderAudio(samples, events, options) from the start of its *)
(* loop, the sound font and the song submitted, to its return or its       *)
(* exception.  The cancel predicate is the caller's: its value may change  *)
(* between any two polls.  The rendered samples are not modelled: whether  *)
(* a buffer is all zero is the song's and the samples' matter, an input of *)
(* each turn once a voice exists.                                          *)
(***************************************************************************)
\* if (i % 1000 === 0)
PollEvery == 1000

\* silentTimeoutSec (5 s) is fifty times forceStopReleaseTime (0.1 s)
SilentTimeoutTicks == 50 * ForceStopTicks

\* Math.ceil(a / b), b > 0
CeilDiv(a, b) == -((-a) \div b)

\* a delay that takes the loop past its second poll
LongDelay == PollEvery * BufferSize

\* the event lists rendered
RenderSongs ==
  { <<>>,
    <<MidiEvent(NoteOnEvent(0, 60, Velocity), 0, NoSeq),
      MidiEvent(NoteOffEvent(0, 60), 3, NoSeq)>>,
    <<MidiEvent(NoteOnEvent(0, 61, Velocity), 5, NoSeq)>>,
    <<MidiEvent(NoteOnEvent(0, 60, Velocity), -1, NoSeq)>>,
    <<MidiEvent(NoteOffEvent(0, 60), LongDelay, NoSeq),
      MidiEvent(NoteOnEvent(0, 60, Velocity), 1, NoSeq)>>,
    <<ReverbControlEvent(5, 7, NoSeq),
      MidiEvent(NoteOnEvent(RHYTHM_CHANNEL, 60, Velocity), 1, NoSeq)>>,
    <<MidiEvent(NoteOnEvent(0, 60, Velocity), 5, NoSeq),
      DelayedLoadSampleEvent(1, 2, NoSeq)>> }

\* max(arr) of the bundle: undefined (here Undef) for an empty array
RECURSIVE maxFrom(_, _, _)
maxFrom(arr, i, m) ==
  IF i > Len(arr) THEN m
  ELSE maxFrom(arr, i + 1, IF arr[i] > m THEN arr[i] ELSE m)

max(arr) == IF arr = <<>> THEN Undef ELSE maxFrom(arr, 2, arr[1])

getSongLength(events) ==
  LET m == max([k \in 1..Len(events) |->
                  IF events[k].type = "midi" THEN events[k].delayTime ELSE 0])
  IN IF m = Undef THEN 0 ELSE m

\* events.forEach((e) => synth.addEvent({ ...e, sequenceNumber: sequenceNumber++ }))
RECURSIVE SubmitAll(_, _, _)
SubmitAll(st, events, k) ==
  IF k > Len(events) THEN st
  ELSE SubmitAll(addEvent(st, [events[k] EXCEPT !.sequenceNumber = k], k, 0), events, k + 1)

\* the engine of renderAudio once the samples of the sound font are added
LoadedEngine ==
  [scheduledEvents |-> <<>>, scheduledReverbEvents |-> <<>>, currentEvents |-> <<>>,
   channels |-> <<>>, rpnEvents |-> [c \in Channels |-> NoRpn],
   bankSelectMSB |-> [c \in Channels |-> Undef], samples |-> SampleIDs,
   sampleParameters |-> LoadFont(<<>>, 1), wetLevel |-> 0, dryLevel |-> 100,
   nextVid |-> 1, immediate |-> <<>>, dispatched |-> <<>>, steps |-> <<>>,
   resolved |-> <<>>, raised |-> <<>>, thrown |-> FALSE]

\* renderAudio up to its loop: the events are added, the counts are computed
RenderStart(events) ==
  LET st == SubmitAll(LoadedEngine, events, 1)
      iterCount == CeilDiv(getSongLength(events), BufferSize)
      additionalIterCount == CeilDiv(SilentTimeoutTicks, ForceStopDiv)
  IN /\ currentFrame = 0
     /\ scheduledEvents = st.scheduledEvents
     /\ scheduledReverbEvents = st.scheduledReverbEvents
     /\ currentEvents = st.currentEvents
     /\ channels = st.channels
     /\ rpnEvents = st.rpnEvents
     /\ bankSelectMSB = st.bankSelectMSB
     /\ samples = st.samples
     /\ sampleParameters = st.sampleParameters
     /\ wetLevel = st.wetLevel
     /\ dryLevel = st.dryLevel
     /\ nextVid = st.nextVid
     /\ submitted = [k \in 1..Len(events) |->
                       [event |-> [events[k] EXCEPT !.sequenceNumber = k], frame |-> 0]]
     /\ immediate = st.immediate
     /\ dispatched = st.dispatched
     /\ steps = st.steps
     /\ processed = 0
     /\ raised = <<>>
     /\ envelope = NewEnvelope(SoundFont[1].parameter.amplitudeEnvelope)
     /\ envelopeCalls = <<>>
     /\ voice = NewOscillator(0, SoundFont[1].parameter)
     /\ voiceCalls = <<>>
     /\ reverb = NewReverb
     /\ player = NoPlayer
     /\ render = [NoRender EXCEPT !.phase = "running", !.iterCount = iterCount,
                                  !.allIterCount = iterCount + additionalIterCount]

RenderInit == \E events \in RenderSongs : RenderStart(events)

\* isArrayZero(buffer[0]) && isArrayZero(buffer[1]): zero for certain while the
\* engine never had a voice
SilentChoices(st) == IF st.nextVid = 1 THEN {TRUE} ELSE BOOLEAN

\* the loop's body after synth.process with the silent-buffer test made on
\* every turn
AfterProcessBreaksOnSilence(r, frame, silent, during) ==
  LET breaks == silent
      polls == ~breaks /\ r.i % PollEvery = 0
      cancel == r.cancel \/ (polls /\ during)
  IN [r EXCEPT !.lastFrame = frame, !.broke = breaks, !.cancel = cancel,
               !.polls = @ + (IF polls THEN 1 ELSE 0),
               !.phase = IF polls /\ cancel THEN "cancelled" ELSE @,
               !.i = IF breaks \/ (polls /\ cancel) THEN @ ELSE @ + 1]

\* the loop's body after synth.process(buffer) was given frame: the break on
\* a silent buffer, then on every PollEvery-th turn the wait for the event
\* loop (during which the predicate may become true) and the poll
AfterProcess(r, frame, silent, during) ==
  LET breaks == r.i > r.iterCount /\ silent
      polls == ~breaks /\ r.i % PollEvery = 0
      cancel == r.cancel \/ (polls /\ during)
  IN [r EXCEPT !.lastFrame = frame, !.broke = breaks, !.cancel = cancel,
               !.polls = @ + (IF polls THEN 1 ELSE 0),
               !.phase = IF polls /\ cancel THEN "cancelled" ELSE @,
               !.i = IF breaks \/ (polls /\ cancel) THEN @ ELSE @ + 1]

\* one turn of the loop of renderAudio
RenderTurn ==
  /\ render.phase = "running"
  /\ ~render.broke
  /\ render.i < render.allIterCount
  /\ LET st == process(Engine, currentFrame)
     IN /\ Becomes(st)
        /\ processed' = processed + 1
        /\ IF st.thrown
           THEN /\ currentFrame' = currentFrame
                /\ render' = [render EXCEPT !.phase = "failed", !.lastFrame = currentFrame]
           ELSE /\ currentFrame' = currentFrame + BufferSize
                /\ \E silent \in SilentChoices(st), during \in BOOLEAN :
                     render' = AfterProcess(render, currentFrame, silent, during)
  /\ UNCHANGED <<submitted, envelope, envelopeCalls, voice, voiceCalls, reverb, player>>

\* the loop is left: the data is trimmed to currentFrame and returned
RenderReturn ==
  /\ render.phase = "running"
  /\ render.broke \/ render.i >= render.allIterCount
  /\ render' = [render EXCEPT !.phase = "returned", !.length = currentFrame]
  /\ UNCHANGED <<engineVars, envelope, envelopeCalls, voice, voiceCalls, reverb, player>>

\* the caller's cancel predicate becomes true
RenderCancel ==
  /\ render.phase = "running"
  /\ ~render.cancel
  /\ render' = [render EXCEPT !.cancel = TRUE]
  /\ UNCHANGED <<engineVars, envelope, envelopeCalls, voice, voiceCalls, reverb, player>>

RenderNext == RenderTurn \/ RenderReturn \/ RenderCancel

RenderSpec == RenderInit /\ [][RenderNext]_vars

(***************************************************************************)
(* WorkerSpec: the render worker.  The main thread posts one start message *)
(* and cancel messages at any time; the worker handles a message when it   *)
(* is idle or while renderAudio waits for the event loop, which it does on *)
(* its polling turns; after the start handler it closes.                   *)
(***************************************************************************)
WorkerMessage(type, events) == [type |-> type, events |-> events]

\* worker.postMessage({type: "start", samples, events, ...}), once
PostStart ==
  /\ render.phase = "idle"
  /\ \A n \in DOMAIN render.inbox : render.inbox[n].type # "start"
  /\ \E events \in RenderSongs :
       render' = [render EXCEPT !.inbox = Append(@, WorkerMessage("start", events))]
  /\ UNCHANGED <<engineVars, envelope, envelopeCalls, voice, voiceCalls, reverb, player>>

\* worker.postMessage({type: "cancel"}), at any time
PostCancel ==
  /\ render.sent < MaxCancelMessages
  /\ render' = [render EXCEPT !.inbox = Append(@, WorkerMessage("cancel", <<>>)),
                              !.sent = @ + 1]
  /\ UNCHANGED <<engineVars, envelope, envelopeCalls, voice, voiceCalls, reverb, player>>

\* case "cancel" gone wrong: the flag is left as it is
onmessageCancelIgnored(r) == [r EXCEPT !.cancels = @ + 1]

\* case "cancel" of onmessage: cancelled = true
onmessageCancel(r) == [r EXCEPT !.cancel = TRUE, !.cancels = @ + 1]

\* the first k messages of the inbox are handled while renderAudio waits
RECURSIVE HandleWhileWaiting(_, _)
HandleWhileWaiting(r, k) ==
  IF k = 0 THEN r
  ELSE LET taken == [r EXCEPT !.inbox = Tail(@)]
       IN HandleWhileWaiting(IF Head(r.inbox).type = "cancel" THEN onmessageCancel(taken)
                             ELSE taken,
                             k - 1)

\* onmessage with a cancel message, the worker idle
OnCancel ==
  /\ render.phase = "idle"
  /\ render.inbox # <<>>
  /\ Head(render.inbox).type = "cancel"
  /\ render' = onmessageCancel([render EXCEPT !.inbox = Tail(@)])
  /\ UNCHANGED <<engineVars, envelope, envelopeCalls, voice, voiceCalls, reverb, player>>

\* onmessage with the start message, the worker idle: renderAudio is called
\* and runs up to its loop
OnStart ==
  /\ render.phase = "idle"
  /\ render.inbox # <<>>
  /\ Head(render.inbox).type = "start"
  /\ LET events == Head(render.inbox).events
         iterCount == CeilDiv(getSongLength(events), BufferSize)
         additionalIterCount == CeilDiv(SilentTimeoutTicks, ForceStopDiv)
     IN /\ Becomes(SubmitAll(LoadedEngine, events, 1))
        /\ submitted' = [k \in 1..Len(events) |->
                           [event |-> [events[k] EXCEPT !.sequenceNumber = k], frame |-> 0]]
        /\ render' = [render EXCEPT !.phase = "running", !.iterCount = iterCount,
                                    !.allIterCount = iterCount + additionalIterCount,
                                    !.inbox = Tail(@)]
  /\ UNCHANGED <<currentFrame, processed, envelope, envelopeCalls, voice, voiceCalls, reverb,
                 player>>

\* the turn reaches await options.waitForEventLoop()
Waits(r, silent) == ~(r.i > r.iterCount /\ silent) /\ r.i % PollEvery = 0

\* one turn of the loop of renderAudio in the worker: on a polling turn the
\* messages that arrived may be handled, any number of them, before
\* fastSleep's own message ends the wait
WorkerTurn ==
  /\ render.phase = "running"
  /\ ~render.broke
  /\ render.i < render.allIterCount
  /\ LET st == process(Engine, currentFrame)
     IN /\ Becomes(st)
        /\ processed' = processed + 1
        /\ IF st.thrown
           THEN /\ currentFrame' = currentFrame
                /\ render' = [render EXCEPT !.phase = "failed", !.lastFrame = currentFrame]
           ELSE /\ currentFrame' = currentFrame + BufferSize
                /\ \E silent \in SilentChoices(st) :
                     \E k \in IF Waits(render, silent) THEN 0..Len(render.inbox) ELSE {0} :
                       render' = AfterProcess(HandleWhileWaiting(render, k), currentFrame,
                                              silent, FALSE)
  /\ UNCHANGED <<submitted, envelope, envelopeCalls, voice, voiceCalls, reverb, player>>

\* renderAudio returns: postMessage({type: "complete", audioData}), close()
WorkerReturn ==
  /\ render.phase = "running"
  /\ render.broke \/ render.i >= render.allIterCount
  /\ render' = [render EXCEPT !.phase = "returned", !.length = currentFrame,
                              !.complete = TRUE]
  /\ UNCHANGED <<engineVars, envelope, envelopeCalls, voice, voiceCalls, reverb, player>>

WorkerNext == PostStart \/ PostCancel \/ OnCancel \/ OnStart \/ WorkerTurn \/ WorkerReturn

WorkerSpec == Init /\ [][WorkerNext]_vars

(***************************************************************************)
(* The scheduler's contract, stated on the histories.                      *)
(***************************************************************************)
Dispatches == 1..Len(dispatched)

\* the submissions addEvent queued as generic events
Generic == {k \in 1..Len(submitted) : submitted[k].event.type # "reverbControl"
                                       /\ submitted[k].event.hasDelay}

TargetFrame(k) == submitted[k].frame + submitted[k].event.delayTime

\* C1: generic events submitted with non-negative delays are dispatched in
\* the order of their scheduledFrame, whatever the submission order: none is
\* dispatched after an event of a larger scheduledFrame, in the same
\* processScheduledEvents call or in a later one, and none is still pending
\* when an event of a larger scheduledFrame has been dispatched.
C1_FrameOrder ==
  /\ \A i, j \in Dispatches :
       (i < j /\ dispatched[i].delayTime >= 0 /\ dispatched[j].delayTime >= 0)
         => dispatched[i].scheduledFrame <= dispatched[j].scheduledFrame
  /\ \A i \in Dispatches, j \in 1..Len(scheduledEvents) :
       (dispatched[i].delayTime >= 0 /\ scheduledEvents[j].delayTime >= 0)
         => dispatched[i].scheduledFrame <= scheduledEvents[j].scheduledFrame

\* two events of different target frames, submitted later-frame first, have
\* been dispatched by one processScheduledEvents call
C1_Witness ==
  \E i, j \in Dispatches :
    /\ i < j
    /\ dispatched[i].delayTime >= 0 /\ dispatched[j].delayTime >= 0
    /\ dispatched[i].scheduledFrame < dispatched[j].scheduledFrame
    /\ dispatched[i].eid > dispatched[j].eid
    /\ dispatched[i].at = dispatched[j].at

Numbered(i) == dispatched[i].sequenceNumber # NoSeq

\* C2: dispatched events of one scheduledFrame that carry sequence numbers
\* are dispatched in ascending sequenceNumber order.
C2_SequenceOrder ==
  \A i, j \in Dispatches :
    (i < j /\ dispatched[i].scheduledFrame = dispatched[j].scheduledFrame
       /\ Numbered(i) /\ Numbered(j))
      => dispatched[i].sequenceNumber <= dispatched[j].sequenceNumber

\* every generic event submitted for that frame carries a sequence number
AllNumbered(frame) ==
  \A k \in Generic : TargetFrame(k) = frame => submitted[k].event.sequenceNumber # NoSeq

\* what does hold of C2's order: events of one scheduledFrame dispatched by
\* one processScheduledEvents call are dispatched in ascending sequenceNumber
\* order when every generic event submitted for that frame carries a
\* sequence number.
SequenceOrderAllNumbered ==
  \A i, j \in Dispatches :
    (i < j /\ dispatched[i].scheduledFrame = dispatched[j].scheduledFrame
       /\ dispatched[i].at = dispatched[j].at
       /\ AllNumbered(dispatched[i].scheduledFrame))
      => dispatched[i].sequenceNumber <= dispatched[j].sequenceNumber

\* two numbered events of one frame, the queue holding them in descending
\* sequenceNumber order (the later submission first), dispatched ascending
SequenceOrderWitness ==
  \E i, j \in Dispatches :
    /\ i < j
    /\ dispatched[i].scheduledFrame = dispatched[j].scheduledFrame
    /\ dispatched[i].at = dispatched[j].at
    /\ AllNumbered(dispatched[i].scheduledFrame)
    /\ dispatched[i].sequenceNumber < dispatched[j].sequenceNumber
    /\ dispatched[i].eid < dispatched[j].eid

\* the frame of the last processScheduledEvents call
LastProcessFrame == currentFrame - BufferSize

\* C3: no event is dispatched by a call whose frame is below its
\* scheduledFrame; after a call no event it found due is left in the queues
\* or in the batch; the caller advancing by BufferSize, an event is
\* dispatched less than BufferSize frames after its scheduledFrame.
C3_FirstDueCall ==
  /\ \A i \in Dispatches :
       /\ dispatched[i].at >= dispatched[i].scheduledFrame
       /\ dispatched[i].at - dispatched[i].scheduledFrame < BufferSize
  /\ currentEvents = <<>>
  /\ processed > 0 =>
       /\ \A j \in 1..Len(scheduledEvents) :
            scheduledEvents[j].scheduledFrame > LastProcessFrame
       /\ \A j \in 1..Len(scheduledReverbEvents) :
            scheduledReverbEvents[j].scheduledFrame > LastProcessFrame

\* an event of a positive delay has waited for a later call and been
\* dispatched after its scheduledFrame, at the next buffer boundary
C3_Witness ==
  \E i \in Dispatches :
    /\ dispatched[i].delayTime > 0
    /\ dispatched[i].at > dispatched[i].scheduledFrame
    /\ dispatched[i].at > submitted[dispatched[i].eid].frame

\* the events addEvent hands to the immediate-event callback
IsImmediate(e) ==
  \/ e.type = "reverbControl" /\ e.delayTime = 0
  \/ e.type # "reverbControl" /\ ~e.hasDelay

EventIds(queue) == {queue[j].eid : j \in 1..Len(queue)}

\* what C4 says of one addEvent call, the event being submission k
AddEventEffect(k) ==
  LET e == submitted'[k].event
  IN /\ dispatched' = dispatched
     /\ currentEvents' = currentEvents
     /\ IF IsImmediate(e)
        THEN /\ immediate' = Append(immediate,
                                    [eid |-> k, type |-> e.type, op |-> "addEvent"])
             /\ scheduledEvents' = scheduledEvents
             /\ scheduledReverbEvents' = scheduledReverbEvents
        ELSE /\ immediate' = immediate
             /\ IF e.type = "reverbControl"
                THEN /\ EventIds(scheduledReverbEvents') =
                          EventIds(scheduledReverbEvents) \cup {k}
                     /\ scheduledEvents' = scheduledEvents
                ELSE /\ EventIds(scheduledEvents') = EventIds(scheduledEvents) \cup {k}
                     /\ scheduledReverbEvents' = scheduledReverbEvents

Steps == 1..Len(steps)

IsController(s, type) ==
  s.midi.subtype = "controller" /\ s.midi.controllerType = type

OfChannel(queue, c) == {queue[j].eid : j \in {n \in 1..Len(queue) : queue[n].midi.channel = c}}

OtherChannels(queue, c) == SelectSeq(queue, LAMBDA e : e.midi.channel # c)

\* C5: removeScheduledEvents(channel), called by all-sounds-off, leaves in
\* the pending queue and in the popped batch exactly the events of the
\* other channels, in their order, and leaves the reverb queue as it is.
C5_RemoveByChannel ==
  \A i \in Steps :
    IsController(steps[i], ALL_SOUNDS_OFF) =>
      LET c == steps[i].midi.channel
          pre == steps[i].pre
          post == steps[i].post
      IN /\ post.scheduledEvents = OtherChannels(pre.scheduledEvents, c)
         /\ post.currentEvents = OtherChannels(pre.currentEvents, c)
         /\ post.scheduledReverbEvents = pre.scheduledReverbEvents

\* an all-sounds-off found an event of its channel in the batch and an
\* event of another channel in the batch or the queue
C5_Witness ==
  \E i \in Steps :
    /\ IsController(steps[i], ALL_SOUNDS_OFF)
    /\ OfChannel(steps[i].pre.currentEvents, steps[i].midi.channel) # {}
    /\ OtherChannels(steps[i].pre.currentEvents \o steps[i].pre.scheduledEvents,
                     steps[i].midi.channel) # <<>>

VoicesOf(view, c) == IF c \in DOMAIN view.channels THEN Voices(view.channels[c]) ELSE {}

\* C6: allSoundsOff(c) discards the pending events of channel c, queued or
\* popped, none of them is dispatched afterwards, every voice of channel c
\* is in the forceStop phase, and the events and the channel states of the
\* other channels are as before.
C6_AllSoundsOff ==
  \A i \in Steps :
    IsController(steps[i], ALL_SOUNDS_OFF) =>
      LET c == steps[i].midi.channel
          pre == steps[i].pre
          post == steps[i].post
          gone == OfChannel(pre.scheduledEvents, c) \cup OfChannel(pre.currentEvents, c)
      IN /\ OfChannel(post.scheduledEvents, c) \cup OfChannel(post.currentEvents, c) = {}
         /\ \A j \in Steps : j > i => steps[j].eid \notin gone
         /\ gone \cap (EventIds(scheduledEvents) \cup EventIds(currentEvents)) = {}
         /\ {v.vid : v \in VoicesOf(post, c)} = {v.vid : v \in VoicesOf(pre, c)}
         /\ \A v \in VoicesOf(post, c) : v.envelope.phase = "forceStop"
         /\ OtherChannels(post.scheduledEvents, c) = OtherChannels(pre.scheduledEvents, c)
         /\ OtherChannels(post.currentEvents, c) = OtherChannels(pre.currentEvents, c)
         /\ \A d \in DOMAIN pre.channels \ {c} :
              d \in DOMAIN post.channels /\ post.channels[d] = pre.channels[d]

\* an all-sounds-off found voices sounding on its channel and on another
\* one, and events pending for its channel and for another one
C6_Witness ==
  \E i \in Steps :
    /\ IsController(steps[i], ALL_SOUNDS_OFF)
    /\ \E v \in VoicesOf(steps[i].pre, steps[i].midi.channel) :
         v.envelope.phase # "forceStop"
    /\ \E d \in DOMAIN steps[i].pre.channels \ {steps[i].midi.channel} :
         VoicesOf(steps[i].pre, d) # {}
    /\ OfChannel(steps[i].pre.scheduledEvents \o steps[i].pre.currentEvents,
                 steps[i].midi.channel) # {}

IsNoteOn(s) == s.midi.subtype = "noteOn"

\* the voice of a view that is voice v, if it is still there
Same(view, c, v) == {w \in VoicesOf(view, c) : w.vid = v.vid}

\* the exclusive classes of the voices a step created on channel c
NewClasses(s, c) ==
  {w.sample.exclusiveClass : w \in {x \in VoicesOf(s.post, c) : Same(s.pre, c, x) = {}}}
    \ {NoClass}

\* C7: a noteOn on channel c, X being an exclusive class one of its matched
\* samples declares, puts every voice already on channel c of class X into
\* the forceStop phase, and changes no voice of channel c whose class is
\* none of these or undefined, and no voice of another channel.
C7_ExclusiveClass ==
  \A i \in Steps :
    IsNoteOn(steps[i]) =>
      LET c == steps[i].midi.channel
          pre == steps[i].pre
          post == steps[i].post
      IN /\ \A v \in VoicesOf(pre, c) :
              \E w \in Same(post, c, v) :
                IF v.sample.exclusiveClass \in NewClasses(steps[i], c)
                THEN w.envelope.phase = "forceStop"
                ELSE w = v
         /\ \A d \in DOMAIN pre.channels \ {c} :
              d \in DOMAIN post.channels /\ post.channels[d] = pre.channels[d]

\* a noteOn found on its channel a sounding voice of its sample's exclusive
\* class, a voice of another class and a voice of no class, and a voice on
\* another channel
C7_Witness ==
  \E i \in Steps :
    LET c == steps[i].midi.channel
        old == VoicesOf(steps[i].pre, c)
        classes == NewClasses(steps[i], c)
    IN /\ IsNoteOn(steps[i])
       /\ \E v \in old : v.sample.exclusiveClass \in classes
                           /\ v.envelope.phase # "forceStop"
       /\ \E v \in old : v.sample.exclusiveClass \notin classes \cup {NoClass}
       /\ \E v \in old : v.sample.exclusiveClass = NoClass
       /\ \E d \in DOMAIN steps[i].pre.channels \ {c} : VoicesOf(steps[i].pre, d) # {}

IsNoteOff(s) == s.midi.subtype = "noteOff"

IsHoldOff(s) == IsController(s, SUSTAIN) /\ s.midi.value < HoldThreshold

\* the hold flag of channel c is set
Holding(view, c) == c \in DOMAIN view.channels /\ view.channels[c].hold

\* the voices of channel c at a key
VoicesAtKey(view, c, k) ==
  IF c \in DOMAIN view.channels /\ k \in Keys THEN VoicesAt(view.channels[c], k) ELSE {}

\* C8: the hold flag of channel c being set, noteOff(c, key) only marks the
\* voices at the key that have had no note-off as held and changes nothing
\* else; a voice that has had no note-off is never in the release phase;
\* hold(c, v) with v < 64 gives note-off to every voice of c marked held and
\* leaves the other voices as they are.
C8_HoldDefers ==
  /\ \A c \in DOMAIN channels : \A v \in Voices(channels[c]) :
       ~v.isNoteOff => ~v.envelope.isNoteOff /\ v.envelope.phase # "release"
  /\ \A i \in Steps :
       LET c == steps[i].midi.channel
           pre == steps[i].pre
           post == steps[i].post
       IN /\ (IsNoteOff(steps[i]) /\ Holding(pre, c)) =>
               \A v \in VoicesOf(pre, c) :
                 \E w \in Same(post, c, v) :
                   IF v \in VoicesAtKey(pre, c, steps[i].midi.noteNumber) /\ ~v.isNoteOff
                   THEN w = [v EXCEPT !.isHold = TRUE]
                   ELSE w = v
          /\ IsHoldOff(steps[i]) =>
               \A v \in VoicesOf(pre, c) :
                 \E w \in Same(post, c, v) :
                   IF v.isHold
                   THEN w.isNoteOff /\ w.envelope.isNoteOff
                   ELSE w = v

\* the pedal was let go with a voice marked held and not yet released and
\* a voice never marked held sounding on the channel, and the held voice
\* has gone into release
C8_Witness ==
  \E i \in Steps :
    /\ IsHoldOff(steps[i])
    /\ \E v \in VoicesOf(steps[i].pre, steps[i].midi.channel) :
         /\ v.isHold /\ ~v.isNoteOff
         /\ \E c \in DOMAIN channels : \E w \in Voices(channels[c]) :
              w.vid = v.vid /\ w.envelope.phase = "release"
    /\ \E v \in VoicesOf(steps[i].pre, steps[i].midi.channel) : ~v.isHold /\ ~v.isNoteOff

\* C9: the hold flag of channel c being set, allNotesOff(c) gives note-off
\* to no voice: the voices that have had none are marked held.
C9_AllNotesOffRespectsHold ==
  \A i \in Steps :
    (IsController(steps[i], ALL_NOTES_OFF) /\ Holding(steps[i].pre, steps[i].midi.channel))
      => \A v \in VoicesOf(steps[i].pre, steps[i].midi.channel) :
           ~v.isNoteOff =>
             \E w \in Same(steps[i].post, steps[i].midi.channel, v) :
               ~w.isNoteOff /\ w.isHold

\* the steps before step i that are controller events of a type on channel c
ControllersBefore(i, type, c) ==
  {j \in 1..(i - 1) : IsController(steps[j], type) /\ steps[j].midi.channel = c}

Last(S) == CHOOSE j \in S : \A k \in S : k <= j

\* the bank a noteOn step resolved its samples with
ResolvedBank(s) == s.resolved[1].bank

\* C10: a bank-select MSB and a bank-select LSB for channel c having been
\* dispatched before a noteOn on c, in either order, the noteOn resolves its
\* samples with bank (m << 7) + l, m and l being the last values of each.
C10_EitherOrder ==
  \A i \in Steps :
    IsNoteOn(steps[i]) =>
      LET c == steps[i].midi.channel
          msb == ControllersBefore(i, MSB_BANK, c)
          lsb == ControllersBefore(i, LSB_BANK, c)
      IN (msb # {} /\ lsb # {}) =>
           ResolvedBank(steps[i]) =
             steps[Last(msb)].midi.value * 128 + steps[Last(lsb)].midi.value

\* C10, amended: on a channel c other than the rhythm channel, l being the
\* value of the last bank-select LSB for c before the noteOn and m the value
\* of the last bank-select MSB for c before that LSB, and no reset of c
\* coming between that LSB and the noteOn, the noteOn resolves its samples
\* with bank (m << 7) + l.
C10_MsbThenLsb ==
  \A i \in Steps :
    IsNoteOn(steps[i]) =>
      LET c == steps[i].midi.channel
          lsb == ControllersBefore(i, LSB_BANK, c)
          msb == ControllersBefore(Last(lsb), MSB_BANK, c)
          reset == ControllersBefore(i, RESET_CONTROLLERS, c)
      IN (c # RHYTHM_CHANNEL /\ lsb # {} /\ msb # {}
            /\ \A r \in reset : r < Last(lsb)) =>
           ResolvedBank(steps[i]) =
             steps[Last(msb)].midi.value * 128 + steps[Last(lsb)].midi.value

\* a noteOn of channel 0 came after MSB 1 and then LSB 1 and resolved its
\* samples, which it found, with bank 129
C10_Witness ==
  \E i \in Steps :
    /\ IsNoteOn(steps[i])
    /\ steps[i].midi.channel = 0
    /\ ControllersBefore(i, LSB_BANK, 0) # {}
    /\ ControllersBefore(Last(ControllersBefore(i, LSB_BANK, 0)), MSB_BANK, 0) # {}
    /\ ResolvedBank(steps[i]) = 129
    /\ steps[i].resolved[1].found > 0

\* the bank stored for channel c (a channel not yet created has the default)
BankOf(view, c) ==
  IF c \in DOMAIN view.channels THEN view.channels[c].bank ELSE initialChannelState.bank

\* the bank a noteOn on channel c resolves its samples with
EffectiveBank(view, c) == IF c = RHYTHM_CHANNEL THEN RHYTHM_BANK ELSE BankOf(view, c)

\* no bank-select LSB and no reset of channel c among the steps j+1 .. i-1
NoBankChangeBetween(j, i, c) ==
  \A k \in (j + 1)..(i - 1) :
    ~(steps[k].midi.channel = c
        /\ (IsController(steps[k], LSB_BANK) \/ IsController(steps[k], RESET_CONTROLLERS)))

\* C11: a bank-select MSB changes no channel state and no other channel's
\* cached MSB; a noteOn on c that follows an MSB for c with no LSB (and no
\* reset) of c between them resolves its samples with the bank c had when
\* the MSB arrived; a bank-select LSB for c sets the bank of c from the last
\* MSB of c alone, or leaves it when c has had none, whatever MSB another
\* channel has cached, and leaves the bank of every other channel.
C11_MsbAloneKeepsBank ==
  \A i \in Steps :
    LET c == steps[i].midi.channel
        pre == steps[i].pre
        post == steps[i].post
    IN /\ IsController(steps[i], MSB_BANK) =>
            /\ post.channels = pre.channels
            /\ \A d \in Channels \ {c} : post.bankSelectMSB[d] = pre.bankSelectMSB[d]
       /\ IsNoteOn(steps[i]) =>
            \A j \in ControllersBefore(i, MSB_BANK, c) :
              NoBankChangeBetween(j, i, c) =>
                ResolvedBank(steps[i]) = EffectiveBank(steps[j].pre, c)
       /\ IsController(steps[i], LSB_BANK) =>
            LET msb == ControllersBefore(i, MSB_BANK, c)
            IN /\ BankOf(post, c) = IF msb = {} THEN BankOf(pre, c)
                                    ELSE steps[Last(msb)].midi.value * 128
                                           + steps[i].midi.value
               /\ \A d \in Channels \ {c} : BankOf(post, d) = BankOf(pre, d)

\* bank 129 having been selected on channel 0, an MSB of 0 arrived for it
\* and, no LSB having followed, a noteOn resolved its samples with bank 129
C11_Witness ==
  \E i \in Steps :
    /\ IsNoteOn(steps[i])
    /\ steps[i].midi.channel = 0
    /\ ResolvedBank(steps[i]) = 129
    /\ steps[i].pre.bankSelectMSB[0] = 0
    /\ \E j \in ControllersBefore(i, MSB_BANK, 0) :
         steps[j].midi.value = 0 /\ NoBankChangeBetween(j, i, 0)

\* the pitch-bend sensitivity of channel c (a channel not yet created has
\* the default)
SensitivityOf(view, c) ==
  IF c \in DOMAIN view.channels THEN view.channels[c].pitchBendSensitivity
  ELSE initialChannelState.pitchBendSensitivity

\* a step that selects a non-registered parameter, or gives value 127 to a
\* registered parameter number
IsRpnClear(s) ==
  \/ IsController(s, NONREG_PARM_NUM_LSB)
  \/ IsController(s, NONREG_PARM_NUM_MSB)
  \/ (IsController(s, REGIST_PARM_NUM_MSB) /\ s.midi.value = 127)
  \/ (IsController(s, REGIST_PARM_NUM_LSB) /\ s.midi.value = 127)

\* a step that stores the RPN LSB selector 0
IsSelectorZero(s) == IsController(s, REGIST_PARM_NUM_LSB) /\ s.midi.value = 0

\* the steps before step i that clear the RPN state of channel c, no
\* selector 0 for c having come since
ClearsStanding(i, c) ==
  {j \in 1..(i - 1) :
     /\ IsRpnClear(steps[j]) /\ steps[j].midi.channel = c
     /\ \A k \in (j + 1)..(i - 1) :
          ~(IsSelectorZero(steps[k]) /\ steps[k].midi.channel = c)}

\* C12: an NRPN select, or an RPN MSB or LSB of value 127, on channel c
\* leaves c with no stored RPN state and the RPN state of the other channels
\* and every channel state as they were; a data-entry MSB on c that follows
\* it, no RPN LSB selector 0 for c having come between, changes no channel
\* state, and so not the pitch-bend sensitivity of c.
C12_ClearedRpn ==
  \A i \in Steps :
    LET c == steps[i].midi.channel
        pre == steps[i].pre
        post == steps[i].post
    IN /\ IsRpnClear(steps[i]) =>
            /\ post.rpnEvents[c] = NoRpn
            /\ \A d \in Channels \ {c} : post.rpnEvents[d] = pre.rpnEvents[d]
            /\ post.channels = pre.channels
       /\ (IsController(steps[i], MSB_DATA_ENTRY) /\ ClearsStanding(i, c) # {}) =>
            /\ SensitivityOf(post, c) = SensitivityOf(pre, c)
            /\ post.channels = pre.channels

\* selector 0 having been stored for channel 0 and for the rhythm channel,
\* the RPN state of channel 0 was cleared and that of the rhythm channel
\* kept, and a data-entry MSB of another value than the sensitivity of
\* channel 0 then left it
C12_Witness ==
  \E i \in Steps :
    /\ IsController(steps[i], MSB_DATA_ENTRY)
    /\ steps[i].midi.channel = 0
    /\ steps[i].midi.value # SensitivityOf(steps[i].pre, 0)
    /\ steps[i].pre.rpnEvents[RHYTHM_CHANNEL].rpnLSB = 0
    /\ \E j \in ClearsStanding(i, 0) :
         /\ steps[j].pre.rpnEvents[0].rpnLSB = 0
         /\ steps[j].pre.rpnEvents[RHYTHM_CHANNEL].rpnLSB = 0

\* the RPN LSB selector last stored for channel c before step i is 0: the
\* last RPN LSB for c had value 0 and nothing has cleared the RPN state of c
\* since
SelectorZeroStored(i, c) ==
  LET sel == ControllersBefore(i, REGIST_PARM_NUM_LSB, c)
  IN /\ sel # {}
     /\ steps[Last(sel)].midi.value = 0
     /\ \A k \in (Last(sel) + 1)..(i - 1) :
          ~(IsRpnClear(steps[k]) /\ steps[k].midi.channel = c)

\* C13: the RPN LSB selector last stored for channel c being 0, a data-entry
\* MSB of value v leaves channel c with pitch-bend sensitivity v in the step
\* that dispatches it, whether a data-entry LSB has come or not; a data-entry
\* LSB changes no channel state.
C13_SensitivityOnDataMsb ==
  \A i \in Steps :
    LET c == steps[i].midi.channel
        pre == steps[i].pre
        post == steps[i].post
    IN /\ (IsController(steps[i], MSB_DATA_ENTRY) /\ SelectorZeroStored(i, c)) =>
            /\ c \in DOMAIN post.channels
            /\ post.channels[c].pitchBendSensitivity = steps[i].midi.value
       /\ IsController(steps[i], LSB_DATA_ENTRY) => post.channels = pre.channels

\* selector 0 stored and no data-entry LSB dispatched so far, a data-entry
\* MSB changed the sensitivity of its channel, and a second one changed it
\* again
C13_Witness ==
  \E i, j \in Steps :
    /\ i < j
    /\ IsController(steps[i], MSB_DATA_ENTRY) /\ IsController(steps[j], MSB_DATA_ENTRY)
    /\ steps[i].midi.channel = 0 /\ steps[j].midi.channel = 0
    /\ SelectorZeroStored(i, 0) /\ SelectorZeroStored(j, 0)
    /\ ControllersBefore(j, LSB_DATA_ENTRY, 0) = {}
    /\ SensitivityOf(steps[i].pre, 0) # steps[i].midi.value
    /\ SensitivityOf(steps[j].pre, 0) # steps[j].midi.value
    /\ SensitivityOf(steps[j].post, 0) = steps[j].midi.value

\* C14: a channel event addressed to channel c, whatever operation of the
\* core it leads to, leaves every other channel as it was: a channel that
\* exists keeps its attributes and its voice lists, a channel that does not
\* exist is not created.
C14_OtherChannelsUnchanged ==
  \A i \in Steps :
    LET c == steps[i].midi.channel
        pre == steps[i].pre
        post == steps[i].post
    IN /\ DOMAIN post.channels \ {c} = DOMAIN pre.channels \ {c}
       /\ \A d \in DOMAIN pre.channels \ {c} : post.channels[d] = pre.channels[d]

\* the rhythm channel and channel 0 both sounding voices, an event on
\* channel 0 changed the state of channel 0
C14_Witness ==
  \E i \in Steps :
    /\ steps[i].midi.channel = 0
    /\ RHYTHM_CHANNEL \in DOMAIN steps[i].pre.channels
    /\ VoicesOf(steps[i].pre, RHYTHM_CHANNEL) # {}
    /\ VoicesOf(steps[i].pre, 0) # {}
    /\ 0 \notin DOMAIN steps[i].post.channels
         \/ steps[i].post.channels[0] # steps[i].pre.channels[0]

\* the voice list of channel c at key k (none when the channel is not there)
VoiceList(view, c, k) ==
  IF c \in DOMAIN view.channels THEN view.channels[c].oscillators[k] ELSE <<>>

InstrumentOf(view, c) ==
  IF c \in DOMAIN view.channels THEN view.channels[c].instrument
  ELSE initialChannelState.instrument

\* the parameters the sound font registers for (bank, instrument) whose key
\* range holds key and whose velocity range holds velocity, in the order of
\* their registration
Registered(bank, instrument, key, velocity) ==
  LET Covers(sp) == /\ sp.range.bank = bank /\ sp.range.instrument = instrument
                    /\ sp.range.keyRange[1] <= key /\ key <= sp.range.keyRange[2]
                    /\ sp.range.velRange[1] <= velocity /\ velocity <= sp.range.velRange[2]
      covering == SelectSeq(SoundFont, Covers)
  IN [n \in 1..Len(covering) |-> covering[n].parameter]

\* C15: a noteOn on channel c at key k appends to the voice list of c at k
\* one voice per sample it resolved, in their order, each started anew, and
\* when the bank it looked in registers samples for the key and velocity
\* these are the samples; the voices the list held stay where they were,
\* changed only by a forced stop of an exclusive class, and not at all when
\* no new sample has an exclusive class; the lists of the other keys keep
\* their voices.
C15_NoteOnAppends ==
  \A i \in Steps :
    IsNoteOn(steps[i]) =>
      LET c == steps[i].midi.channel
          k == steps[i].midi.noteNumber
          pre == steps[i].pre
          post == steps[i].post
          old == VoiceList(pre, c, k)
          new == VoiceList(post, c, k)
          found == steps[i].resolved[1].found
          matching == Registered(ResolvedBank(steps[i]), InstrumentOf(pre, c), k,
                                 steps[i].midi.velocity)
      IN /\ Len(new) = Len(old) + found
         /\ \A n \in 1..Len(old) :
              /\ new[n].vid = old[n].vid
              /\ \/ new[n] = old[n]
                 \/ /\ old[n].sample.exclusiveClass \in NewClasses(steps[i], c)
                    /\ new[n].envelope.phase = "forceStop"
         /\ \A n \in 1..found :
              /\ new[Len(old) + n].envelope.phase = "attack"
              /\ new[Len(old) + n].isPlaying
              /\ \A v \in VoicesOf(pre, c) : v.vid < new[Len(old) + n].vid
              /\ \A m \in 1..(n - 1) : new[Len(old) + m].vid < new[Len(old) + n].vid
         /\ matching # <<>> =>
              /\ found = Len(matching)
              /\ \A n \in 1..found : new[Len(old) + n].sample = matching[n]
         /\ NewClasses(steps[i], c) = {} => new = old \o SubSeq(new, Len(old) + 1, Len(new))
         /\ \A j \in Keys \ {k} :
              /\ Len(VoiceList(post, c, j)) = Len(VoiceList(pre, c, j))
              /\ \A n \in 1..Len(VoiceList(pre, c, j)) :
                   VoiceList(post, c, j)[n].vid = VoiceList(pre, c, j)[n].vid

\* a key whose sample has no exclusive class was struck again while its
\* voice was sounding: the voice is as it was and a second one follows it
C15_Witness ==
  \E i \in Steps :
    LET c == steps[i].midi.channel
        old == VoiceList(steps[i].pre, c, steps[i].midi.noteNumber)
        new == VoiceList(steps[i].post, c, steps[i].midi.noteNumber)
    IN /\ IsNoteOn(steps[i])
       /\ old # <<>>
       /\ Len(new) = Len(old) + 1
       /\ NewClasses(steps[i], c) = {}
       /\ old[1].envelope.phase \notin {"stopped", "forceStop"}
       /\ new[1] = old[1]
       /\ new[Len(new)].sample = old[1].sample

(***************************************************************************)
(* The contract of the sample table, stated on what was submitted.  An     *)
(* immediate event is handled when it is submitted, so the table a process *)
(* call of frame at finds is made of the submissions of frames up to at.   *)
(***************************************************************************)
QueryBanks == {0, 1, RHYTHM_BANK}
QueryInstruments == {0, 1}
QueryVelocities == {Velocity - 1, Velocity, Velocity + 1}

\* the sampleParameter events submitted up to frame at, in their order
Registrations(at) ==
  SelectSeq(submitted, LAMBDA s : s.event.type = "sampleParameter" /\ s.frame <= at)

\* the sample ids of the loadSample events submitted up to frame at
LoadedAt(at) ==
  {submitted[n].event.sampleID :
     n \in {m \in 1..Len(submitted) : submitted[m].event.type = "loadSample"
                                        /\ submitted[m].frame <= at}}

AllLoaded(at) ==
  LET regs == Registrations(at)
      loaded == LoadedAt(at)
  IN \A n \in 1..Len(regs) : regs[n].event.parameter.sampleID \in loaded

\* the parameters registered for (bank, instrument) up to frame at whose key
\* range holds key and whose velocity range holds velocity, bounds included,
\* one for each registration, in the order of the registrations
RegisteredFor(at, bank, instrument, key, velocity) ==
  LET Covers(s) ==
        /\ s.event.range.bank = bank /\ s.event.range.instrument = instrument
        /\ s.event.range.keyRange[1] <= key /\ key <= s.event.range.keyRange[2]
        /\ s.event.range.velRange[1] <= velocity /\ velocity <= s.event.range.velRange[2]
      covering == SelectSeq(Registrations(at), Covers)
  IN [n \in 1..Len(covering) |-> covering[n].event.parameter]

\* something is registered for (bank, instrument)
AnyRegistered(at, bank, instrument) ==
  LET regs == Registrations(at)
  IN \E n \in 1..Len(regs) :
       regs[n].event.range.bank = bank /\ regs[n].event.range.instrument = instrument

\* the bank looked in: bank 0 when nothing is registered for (bank, instrument)
LookupBank(at, bank, instrument) == IF AnyRegistered(at, bank, instrument) THEN bank ELSE 0

\* the frame of the process call that dispatched step i
StepFrame(i) == dispatched[i].at

\* C16: every registered sample id being loaded, getSamples(bank, instrument,
\* key, velocity) returns exactly the parameters registered for that (bank,
\* instrument) whose key range holds key and whose velocity range holds
\* velocity, one for each registration; so does the lookup of a noteOn.
C16_ExactlyRegistered ==
  /\ AllLoaded(currentFrame) =>
       \A b \in QueryBanks, n \in QueryInstruments, k \in Keys, v \in QueryVelocities :
         getSamples(samples, sampleParameters, b, n, k, v)
           = RegisteredFor(currentFrame, b, n, k, v)
  /\ \A i \in Steps :
       (IsNoteOn(steps[i]) /\ AllLoaded(StepFrame(i))) =>
         steps[i].resolved[1].samples
           = RegisteredFor(StepFrame(i), ResolvedBank(steps[i]),
                           InstrumentOf(steps[i].pre, steps[i].midi.channel),
                           steps[i].midi.noteNumber, steps[i].midi.velocity)

\* C16, amended: every registered sample id being loaded, getSamples(bank,
\* instrument, key, velocity) returns exactly the parameters registered for
\* (b, instrument) whose key range holds key and whose velocity range holds
\* velocity, one for each registration and in the order of the
\* registrations, b being bank when something is registered for (bank,
\* instrument) and 0 when nothing is; so does the lookup of a noteOn.
C16_ExactlyRegisteredOrBankZero ==
  /\ AllLoaded(currentFrame) =>
       \A b \in QueryBanks, n \in QueryInstruments, k \in Keys, v \in QueryVelocities :
         getSamples(samples, sampleParameters, b, n, k, v)
           = RegisteredFor(currentFrame, LookupBank(currentFrame, b, n), n, k, v)
  /\ \A i \in Steps :
       (IsNoteOn(steps[i]) /\ AllLoaded(StepFrame(i))) =>
         LET n == InstrumentOf(steps[i].pre, steps[i].midi.channel)
         IN steps[i].resolved[1].samples
              = RegisteredFor(StepFrame(i),
                              LookupBank(StepFrame(i), ResolvedBank(steps[i]), n), n,
                              steps[i].midi.noteNumber, steps[i].midi.velocity)

\* a parameter registered over two keys and a later one registered at the
\* second key, their samples loaded: a noteOn at the second key resolved
\* both, the earlier first, and the first key still gives the earlier one
C16_Witness ==
  \E i \in Steps :
    /\ IsNoteOn(steps[i])
    /\ AllLoaded(StepFrame(i)) /\ AllLoaded(currentFrame)
    /\ Len(steps[i].resolved[1].samples) = 2
    /\ steps[i].resolved[1].samples[1] # steps[i].resolved[1].samples[2]
    /\ steps[i].midi.noteNumber = 61
    /\ getSamples(samples, sampleParameters, 0, 0, 60, Velocity)
         = <<steps[i].resolved[1].samples[1]>>

\* something is registered for the bank, whatever the instrument
BankRegistered(at, bank) ==
  LET regs == Registrations(at)
  IN \E n \in 1..Len(regs) : regs[n].event.range.bank = bank

\* the parameters of a list whose sample is loaded at frame at
LoadedOnly(at, parameters) ==
  LET loaded == LoadedAt(at)
  IN SelectSeq(parameters, LAMBDA q : q.sampleID \in loaded)

\* the banks of the registrations the parameters of a result come from (a
\* parameter tells its registration)
SourceBanks(result) ==
  LET returned == {result[n] : n \in 1..Len(result)}
  IN {sp.range.bank : sp \in {x \in TableChoices : x.parameter \in returned}}

\* something is registered for the bank and the instrument at the key
KeyRegistered(at, bank, instrument, key) ==
  LET regs == Registrations(at)
  IN \E n \in 1..Len(regs) :
       LET range == regs[n].event.range
       IN /\ range.bank = bank /\ range.instrument = instrument
          /\ range.keyRange[1] <= key /\ key <= range.keyRange[2]

\* what C17 says of the result of looking up (b, n, k, v) in the table of
\* frame at: bank 0 is looked in when the bank has no entry at all, and only
\* then
FallbackOnlyForAbsentBank(at, result, b, n, k, v) ==
  IF BankRegistered(at, b)
  THEN /\ SourceBanks(result) \subseteq {b}
       /\ result = LoadedOnly(at, RegisteredFor(at, b, n, k, v))
  ELSE result = LoadedOnly(at, RegisteredFor(at, 0, n, k, v))

\* the same, bank 0 being looked in when nothing is registered for the bank
\* and the instrument, and only then
FallbackForAbsentInstrument(at, result, b, n, k, v) ==
  IF AnyRegistered(at, b, n)
  THEN /\ SourceBanks(result) \subseteq {b}
       /\ result = LoadedOnly(at, RegisteredFor(at, b, n, k, v))
       /\ ~KeyRegistered(at, b, n, k) => result = <<>>
  ELSE result = LoadedOnly(at, RegisteredFor(at, 0, n, k, v))

\* C17: getSamples looks in bank 0 exactly when the requested bank has no
\* entry at all; when the bank has entries but not for the instrument, or
\* not for the key, the result is empty and comes from no other bank.
C17_FallbackOnlyForAbsentBank ==
  /\ \A b \in QueryBanks, n \in QueryInstruments, k \in Keys :
       FallbackOnlyForAbsentBank(currentFrame,
                                 getSamples(samples, sampleParameters, b, n, k, Velocity),
                                 b, n, k, Velocity)
  /\ \A i \in Steps :
       IsNoteOn(steps[i]) =>
         FallbackOnlyForAbsentBank(StepFrame(i), steps[i].resolved[1].samples,
                                   ResolvedBank(steps[i]),
                                   InstrumentOf(steps[i].pre, steps[i].midi.channel),
                                   steps[i].midi.noteNumber, steps[i].midi.velocity)

\* C17, amended: getSamples looks in bank 0 exactly when nothing is
\* registered for the requested bank and instrument, the bank having no entry
\* at all or entries of other instruments only; when the bank has entries for
\* the instrument but none for the key, the result is empty and bank 0 is
\* not looked in.
C17_FallbackForAbsentInstrument ==
  /\ \A b \in QueryBanks, n \in QueryInstruments, k \in Keys :
       FallbackForAbsentInstrument(currentFrame,
                                   getSamples(samples, sampleParameters, b, n, k, Velocity),
                                   b, n, k, Velocity)
  /\ \A i \in Steps :
       IsNoteOn(steps[i]) =>
         FallbackForAbsentInstrument(StepFrame(i), steps[i].resolved[1].samples,
                                     ResolvedBank(steps[i]),
                                     InstrumentOf(steps[i].pre, steps[i].midi.channel),
                                     steps[i].midi.noteNumber, steps[i].midi.velocity)

\* the rhythm bank holding entries of instrument 1 only, a noteOn of the
\* rhythm channel, its instrument 0, resolved a sample of bank 0
C17_Witness ==
  \E i \in Steps :
    /\ IsNoteOn(steps[i])
    /\ ResolvedBank(steps[i]) = RHYTHM_BANK
    /\ BankRegistered(StepFrame(i), RHYTHM_BANK)
    /\ ~AnyRegistered(StepFrame(i), RHYTHM_BANK, 0)
    /\ steps[i].resolved[1].samples # <<>>
    /\ SourceBanks(steps[i].resolved[1].samples) = {0}

\* the parameters a lookup of (b, n, k, v) in the table of frame at meets,
\* their samples loaded or not
Candidates(at, b, n, k, v) == RegisteredFor(at, LookupBank(at, b, n), n, k, v)

\* the candidates of the lookup a noteOn step made
StepCandidates(i) ==
  Candidates(StepFrame(i), ResolvedBank(steps[i]),
             InstrumentOf(steps[i].pre, steps[i].midi.channel),
             steps[i].midi.noteNumber, steps[i].midi.velocity)

\* C18: getSamples returns the candidates whose sample id is loaded and
\* passes over the others; a noteOn that resolves no sample creates no voice
\* and leaves the engine as it was, but for the channel it addresses, which
\* is created with the initial values when it was not there.
C18_MissingIsSkipped ==
  /\ \A b \in QueryBanks, n \in QueryInstruments, k \in Keys :
       getSamples(samples, sampleParameters, b, n, k, Velocity)
         = LoadedOnly(currentFrame, Candidates(currentFrame, b, n, k, Velocity))
  /\ \A i \in Steps :
       IsNoteOn(steps[i]) =>
         LET c == steps[i].midi.channel
             pre == steps[i].pre
             post == steps[i].post
         IN /\ steps[i].resolved[1].samples = LoadedOnly(StepFrame(i), StepCandidates(i))
            /\ steps[i].resolved[1].found = 0 =>
                 /\ DOMAIN post.channels = DOMAIN pre.channels \cup {c}
                 /\ \A d \in DOMAIN pre.channels : post.channels[d] = pre.channels[d]
                 /\ c \notin DOMAIN pre.channels => post.channels[c] = initialChannelState
                 /\ [post EXCEPT !.channels = pre.channels] = pre

\* a noteOn met a parameter whose sample was not loaded and nothing else:
\* it resolved no sample, and its channel, not there before, is there with
\* the initial values and no voice
C18_Witness ==
  \E i \in Steps :
    /\ IsNoteOn(steps[i])
    /\ StepCandidates(i) # <<>>
    /\ steps[i].resolved[1].found = 0
    /\ steps[i].midi.channel \notin DOMAIN steps[i].pre.channels
    /\ steps[i].post.channels[steps[i].midi.channel] = initialChannelState


(***************************************************************************)
(* The envelope's contract, stated on the calls made on it.                *)
(***************************************************************************)
GetAmplitudeCalls == {i \in DOMAIN envelopeCalls : envelopeCalls[i].op = "getAmplitude"}

\* no note-off and no forced stop has reached the envelope
Undisturbed ==
  \A i \in DOMAIN envelopeCalls : envelopeCalls[i].op \in {"noteOn", "getAmplitude"}

\* where the round trip ends: stopped and silent, or sustaining at sustainLevel
Settled ==
  /\ GetAmplitudeCalls # {}
  /\ IF envelope.parameter.sustainLevel = 0
     THEN envelope.phase = "stopped" /\ envelope.lastAmplitude = 0
     ELSE envelope.phase = "sustain"
            /\ envelope.lastAmplitude = envelope.parameter.sustainLevel

\* undisturbed, a call that leaves the round trip's end behind it is followed
\* by calls that return the same and stay there
StaysSettled ==
  Undisturbed =>
    \A i \in GetAmplitudeCalls :
      LET call == envelopeCalls[i]
          level == call.after.parameter.sustainLevel
          settled == IF level = 0 THEN "stopped" ELSE "sustain"
      IN call.after.phase = settled =>
           /\ call.value = level
           /\ \A j \in GetAmplitudeCalls :
                j > i => /\ envelopeCalls[j].after.phase = settled
                         /\ envelopeCalls[j].value = level

\* C19: after noteOn, with getAmplitude called buffer after buffer and neither
\* a note-off nor a forced stop, the envelope comes to be stopped with amplitude
\* 0 if its sustainLevel is 0, and otherwise comes to be in sustain; once
\* there it stays there, every call returning sustainLevel.
C19_RoundTrip ==
  /\ (envelopeCalls # <<>>) ~> (~Undisturbed \/ Settled)
  /\ []StaysSettled

\* an undisturbed envelope with a hold time and a positive sustainLevel that
\* has been asked twice more since it came to sustain
C19_Witness ==
  /\ Undisturbed
  /\ envelope.parameter.sustainLevel > 0
  /\ envelope.parameter.holdTime > 0
  /\ envelope.phase = "sustain"
  /\ \E i, j \in GetAmplitudeCalls :
       /\ i < j
       /\ envelopeCalls[i].before.phase = "sustain"
       /\ envelopeCalls[i].value = envelope.parameter.sustainLevel
       /\ envelopeCalls[j].value = envelope.parameter.sustainLevel

\* ceil(0.1 * sampleRate / bufferSize)
ForceStopCalls == (ForceStopTicks + ForceStopDiv - 1) \div ForceStopDiv

\* the forceStop calls made on an envelope that was not stopped
ForcedStops ==
  {i \in DOMAIN envelopeCalls :
     envelopeCalls[i].op = "forceStop" /\ envelopeCalls[i].before.phase # "stopped"}

AmplitudesAfter(i) == {j \in GetAmplitudeCalls : j > i}

\* C20: from a forceStop call made in any phase but stopped, each getAmplitude
\* call returns less than the amplitude before it, or 0; the call that is the
\* ceil(0.1 * sampleRate / bufferSize)-th after the forceStop and every later
\* one return 0 and leave the envelope stopped, whatever the phase, the
\* releaseTime and the note-offs before or after.
C20_ForceStopRamp ==
  \A i \in ForcedStops :
    \A j \in AmplitudesAfter(i) :
      LET call == envelopeCalls[j]
      IN /\ call.value >= 0
         /\ call.value = 0 \/ call.value < call.before.lastAmplitude
         /\ Cardinality({k \in AmplitudesAfter(i) : k <= j}) >= ForceStopCalls
              => call.value = 0 /\ call.after.phase = "stopped"

\* a forced stop at full level: the ramp takes every one of its calls, and a
\* note-off arrives in the middle of it
C20_Witness ==
  \E i \in ForcedStops :
    /\ envelopeCalls[i].before.lastAmplitude = AmpOne
    /\ Cardinality(AmplitudesAfter(i)) = ForceStopCalls
    /\ \E j \in DOMAIN envelopeCalls : j > i /\ envelopeCalls[j].op = "noteOff"
    /\ \A j \in AmplitudesAfter(i) :
         envelopeCalls[j].after.phase = "stopped"
           <=> Cardinality({k \in AmplitudesAfter(i) : k <= j}) = ForceStopCalls
    /\ envelope.phase = "stopped"


\* the getAmplitude calls that left the envelope stopped
ReachedStopped ==
  {i \in GetAmplitudeCalls : envelopeCalls[i].after.phase = "stopped"}

\* C21: once a getAmplitude call has left the envelope stopped, every later
\* getAmplitude, noteOff and forceStop call leaves it stopped and not playing,
\* and every later getAmplitude call returns 0; an envelope in any other
\* phase is playing.
C21_StoppedIsTerminal ==
  /\ \A i \in ReachedStopped :
       \A j \in DOMAIN envelopeCalls :
         j > i =>
           /\ envelopeCalls[j].after.phase = "stopped"
           /\ ~EnvelopeIsPlaying(envelopeCalls[j].after)
           /\ envelopeCalls[j].op = "getAmplitude" => envelopeCalls[j].value = 0
  /\ \A j \in DOMAIN envelopeCalls :
       envelopeCalls[j].after.phase # "stopped" => EnvelopeIsPlaying(envelopeCalls[j].after)


(***************************************************************************)
(* The render path's contract.                                             *)
(***************************************************************************)
\* C22: no process call ends with an exception, whatever events addEvent
\* accepted before it: of any type, with or without a delayTime, with or
\* without a midi payload.
C22_ProcessNeverRaises == raised = <<>>


(***************************************************************************)
(* The voice's contract, stated on the calls made on it.                   *)
(***************************************************************************)
ProcessCalls == {j \in DOMAIN voiceCalls : voiceCalls[j].op = "process"}

\* the read pointer before frame k of process call j, and after it
PointerBefore(j, k) ==
  IF k = 1 THEN voiceCalls[j].before.sampleIndex
  ELSE voiceCalls[j].frames[k - 1].sampleIndex

PointerAfter(j, k) == voiceCalls[j].frames[k].sampleIndex

\* the frames process call j went through: the loop is left at the frame
\* that stops the voice
FramesOf(j) ==
  {k \in 1..BufferSize : k = 1 \/ voiceCalls[j].frames[k - 1].isPlaying}

LoopStart(osc) == osc.sample.loop.start * PointerDiv
LoopEnd(osc) == osc.sample.loop.end * PointerDiv

\* C23: a voice of a continuous-loop sample (sampleStart <= loop.start <
\* loop.end <= sampleEnd, speed positive): a frame whose advance would reach or
\* pass loop.end leaves the read pointer in [loop.start, loop.end), any other
\* frame advances it by the speed; so the pointer is below loop.end after
\* every frame, no frame clears the playing flag, and the voice stops playing
\* only when its envelope has stopped.
C23_ContinuousLoopWraps ==
  voice.sample.loop.type = "loop_continuous" =>
    \A j \in ProcessCalls :
      /\ \A k \in FramesOf(j) :
           LET advanced == PointerBefore(j, k) + voice.speed
           IN /\ advanced >= LoopEnd(voice) =>
                   /\ PointerAfter(j, k) >= LoopStart(voice)
                   /\ PointerAfter(j, k) < LoopEnd(voice)
              /\ advanced < LoopEnd(voice) => PointerAfter(j, k) = advanced
              /\ PointerAfter(j, k) < LoopEnd(voice)
              /\ voiceCalls[j].frames[k].isPlaying
      /\ FramesOf(j) = 1..BufferSize
      /\ voiceCalls[j].after.isPlaying
      /\ ~OscIsPlaying(voiceCalls[j].after)
           => ~EnvelopeIsPlaying(voiceCalls[j].after.envelope)

\* a continuous-loop voice faster than its loop is long, wrapped in two
\* process calls to a place past loop.start, the fraction of its advance kept
C23_Witness ==
  /\ voice.sample.loop.type = "loop_continuous"
  /\ voice.speed > LoopEnd(voice) - LoopStart(voice)
  /\ \E i, j \in ProcessCalls :
       /\ i < j
       /\ \E k \in 1..BufferSize :
            /\ PointerBefore(i, k) + voice.speed >= LoopEnd(voice)
            /\ PointerAfter(i, k) > LoopStart(voice)
       /\ \E k \in 1..BufferSize :
            PointerBefore(j, k) + voice.speed >= LoopEnd(voice)


\* process call j wrapped the read pointer at one of its frames
Wrapped(j) ==
  \E k \in FramesOf(j) : PointerAfter(j, k) # PointerBefore(j, k) + voice.speed

NoteOffCalls == {i \in DOMAIN voiceCalls : voiceCalls[i].op = "noteOff"}

\* the voice is gone from its list: process ended with it not playing
Dropped == ~OscIsPlaying(voice)

\* the frame loop cleared the playing flag of the voice: sampleEnd was reached
ReachedSampleEnd == voiceCalls # <<>> /\ ~voice.isPlaying

\* a sustain-loop voice wraps where a continuous-loop voice does as long as no
\* note-off has reached it, held or not; from its note-off on no frame wraps,
\* every frame advances the pointer by the speed, and the frame that takes it
\* to sampleEnd ends the buffer with the voice not playing
SustainLoopFrames ==
  voice.sample.loop.type = "loop_sustain" =>
    \A j \in ProcessCalls :
      /\ \A k \in FramesOf(j) :
           LET advanced == PointerBefore(j, k) + voice.speed
               released == \E i \in NoteOffCalls : i < j
               wraps == ~released /\ advanced >= LoopEnd(voice)
           IN /\ wraps => /\ PointerAfter(j, k) >= LoopStart(voice)
                          /\ PointerAfter(j, k) < LoopEnd(voice)
              /\ ~wraps => PointerAfter(j, k) = advanced
              /\ voiceCalls[j].frames[k].isPlaying
                   <=> PointerAfter(j, k) < voice.sample.sampleEnd * PointerDiv
      /\ voiceCalls[j].after = voiceCalls[j].frames[BufferSize]
      /\ ~voiceCalls[j].after.isPlaying => ~OscIsPlaying(voiceCalls[j].after)

\* C24 as stated: a sustain-loop voice wraps only as long as no note-off has
\* reached it (the pedal's mark does not stop the wrapping); after its noteOff
\* the pointer only advances, and it reaches sampleEnd: the voice stops within
\* that buffer and is dropped in that process call.
C24_SustainLoopPlaysToEnd ==
  /\ []SustainLoopFrames
  /\ (voice.sample.loop.type = "loop_sustain" /\ NoteOffCalls # {}) ~> ReachedSampleEnd

\* C24, amended: ... after its noteOff the pointer only advances, and the
\* voice is dropped from its list, in the process call in which the pointer
\* reaches sampleEnd or in the one in which its envelope stops, whichever
\* comes first.
C24_SustainLoopPlaysOut ==
  /\ []SustainLoopFrames
  /\ (voice.sample.loop.type = "loop_sustain" /\ NoteOffCalls # {}) ~> Dropped

\* a sustain-loop voice that wrapped while marked held, then got its note-off
\* and ran to sampleEnd, its envelope still sounding
C24_Witness ==
  /\ voice.sample.loop.type = "loop_sustain"
  /\ \E h, j, i, l \in DOMAIN voiceCalls :
       /\ h < j /\ j < i /\ i < l
       /\ voiceCalls[h].op = "hold"
       /\ j \in ProcessCalls /\ Wrapped(j)
       /\ voiceCalls[i].op = "noteOff"
       /\ l \in ProcessCalls
       /\ PointerBefore(l, 1) + voice.speed >= LoopEnd(voice)
  /\ ReachedSampleEnd
  /\ EnvelopeIsPlaying(voice.envelope)


(***************************************************************************)
(* Notes playing out.                                                      *)
(***************************************************************************)
VidsAt(view, c, k) == {v.vid : v \in VoicesAtKey(view, c, k)}

\* the voices a noteOn step created
CreatedBy(i) ==
  VidsAt(steps[i].post, steps[i].midi.channel, steps[i].midi.noteNumber)
    \ VidsAt(steps[i].pre, steps[i].midi.channel, steps[i].midi.noteNumber)

\* the voices the channels hold now
Sounding ==
  UNION {{v.vid : v \in Voices(channels[c])} : c \in DOMAIN channels}

\* step i is a noteOn that created voices, and a noteOff for its channel and
\* key was dispatched after it, the pedal of the channel up
Released(i) ==
  /\ i \in Steps
  /\ IsNoteOn(steps[i])
  /\ CreatedBy(i) # {}
  /\ \E j \in Steps :
       /\ j > i
       /\ IsNoteOff(steps[j])
       /\ steps[j].midi.channel = steps[i].midi.channel
       /\ steps[j].midi.noteNumber = steps[i].midi.noteNumber
       /\ ~Holding(steps[j].pre, steps[j].midi.channel)

Gone(i) == i \in Steps /\ CreatedBy(i) \cap Sounding = {}

\* C25: a noteOn followed by a noteOff for its channel and key, the pedal up:
\* with process called buffer after buffer every voice the noteOn created
\* leaves the channel's lists, also when the noteOff came during attack or
\* hold; a voice that has left does not come back, so it is rendered no more.
C25_ReleasedNotesEnd ==
  /\ \A i \in 1..MaxReleaseEvents : Released(i) ~> Gone(i)
  /\ [][\A i \in 1..MaxReleaseEvents : Gone(i) => Gone(i)']_vars

\* the one noteOn there was, its noteOff come in the same process call with
\* its two voices still in attack: they played out and have left
C25_Witness ==
  \E i \in Steps :
    /\ \A j \in Steps : IsNoteOn(steps[j]) => j = i
    /\ Released(i)
    /\ Gone(i)
    /\ \E j \in Steps :
         /\ j > i
         /\ IsNoteOff(steps[j])
         /\ steps[j].midi.noteNumber = steps[i].midi.noteNumber
         /\ \A v \in VoicesAtKey(steps[j].pre, 0, steps[j].midi.noteNumber) :
              v.envelope.phase = "attack"
         /\ Cardinality(CreatedBy(i)) = 2

(***************************************************************************)
(* renderAudio: cancellation, and how far the loop renders.                *)
(***************************************************************************)
\* C26: if the cancel predicate became true at any point while renderAudio
\* was rendering, renderAudio does not return audio data: it ends by throwing
\* the cancellation error.
C26_CancelThrows == render.phase = "returned" => ~render.cancel

\* the delays of the MIDI events given to renderAudio
MidiDelays ==
  {submitted[k].event.delayTime :
     k \in {n \in DOMAIN submitted : submitted[n].event.type = "midi"}}

AllMidiDispatched ==
  \A k \in DOMAIN submitted :
    submitted[k].event.type = "midi" => \E j \in Dispatches : dispatched[j].eid = k

IsReset(s) == IsController(s, RESET_CONTROLLERS)

\* the attributes of a channel state, its voice lists apart
ChannelAttributes ==
  {"volume", "bank", "instrument", "pitchBend", "pitchBendSensitivity", "expression",
   "pan", "modulation", "hold"}

\* the attribute the operation of a channel event assigns
Assigns(midi) ==
  CASE midi.subtype = "pitchBend" -> {"pitchBend"}
    [] midi.subtype = "programChange" -> {"instrument"}
    [] midi.subtype = "controller" /\ midi.controllerType = MSB_MAIN_VOLUME -> {"volume"}
    [] midi.subtype = "controller" /\ midi.controllerType = SUSTAIN -> {"hold"}
    [] OTHER -> {}

\* the voices of every channel of a view
AllVids(chs) == UNION {{v.vid : v \in Voices(chs[c])} : c \in DOMAIN chs}

\* the steps after step i that address the channel of step i
LaterOn(i) == {j \in Steps : j > i /\ steps[j].midi.channel = steps[i].midi.channel}

\* C28: reset-controllers for channel c removes the state of c with all its
\* voices in one step (no voice of c is left in any phase, and none of them
\* is in any channel afterwards), leaves every queue as it was, and the next
\* event dispatched for c finds no state for c: after it every attribute it
\* does not assign has its default and the only voices of c are those it
\* created.
C28_ResetDiscards ==
  \A i \in Steps :
    IsReset(steps[i]) =>
      LET c == steps[i].midi.channel
          pre == steps[i].pre
          post == steps[i].post
          old == {v.vid : v \in VoicesOf(pre, c)}
      IN /\ c \notin DOMAIN post.channels
         /\ post.scheduledEvents = pre.scheduledEvents
         /\ post.currentEvents = pre.currentEvents
         /\ post.scheduledReverbEvents = pre.scheduledReverbEvents
         /\ old \cap AllVids(channels) = {}
         /\ \A j \in Steps : j > i => old \cap AllVids(steps[j].post.channels) = {}
         /\ \A j \in LaterOn(i) :
              (\A k \in LaterOn(i) : k >= j) =>
                /\ c \notin DOMAIN steps[j].pre.channels
                /\ c \in DOMAIN steps[j].post.channels =>
                     /\ \A f \in ChannelAttributes \ Assigns(steps[j].midi) :
                          steps[j].post.channels[c][f] = initialChannelState[f]
                     /\ \A v \in VoicesOf(steps[j].post, c) :
                          /\ IsNoteOn(steps[j])
                          /\ v.vid \notin AllVids(steps[j].pre.channels)

\* channel 0 sounding a voice with its pitch bent, a reset of channel 0 was
\* dispatched with an event for channel 0 still queued; that event, a
\* note-on, was dispatched later and made a voice
C28_Witness ==
  \E i, j \in Steps :
    /\ i < j
    /\ IsReset(steps[i])
    /\ VoicesOf(steps[i].pre, 0) # {}
    /\ steps[i].pre.channels[0].pitchBend # 0
    /\ \E n \in DOMAIN steps[i].pre.scheduledEvents :
         steps[i].pre.scheduledEvents[n].midi.channel = 0
    /\ IsNoteOn(steps[j]) /\ steps[j].midi.channel = 0
    /\ \A k \in LaterOn(i) : k >= j
    /\ VoicesOf(steps[j].post, 0) # {}

(***************************************************************************)
(* The reverb levels and the mix.                                          *)
(***************************************************************************)
Clamp(a, lo, hi) == IF a < lo THEN lo ELSE IF a > hi THEN hi ELSE a

\* the delay lines hold something other than zero
LinesLoaded(lines) == \E d \in DelayLineIds : \E k \in 1..DelayTimes[d] : lines[d][k] # 0

\* the last process call wrote, for each of its samples, the cell each delay
\* line was at: the cell the call began at holds the first input sample plus
\* the fed back part of what it held, unless the call came round to it again
FirstCellWritten(d) ==
  LET k == reverb.before.indices[d] + 1
      inputSample == (reverb.input[1][1] + reverb.input[1][2]) * 50
  IN Len(reverb.input) <= DelayTimes[d] =>
       reverb.delayLines[d][k]
         = inputSample + ((reverb.before.lines[d][k] * Feedbacks[d]) \div 100)

\* C29: wetLevel is the amount last set clamped to [0, 1] and dryLevel is
\* 1 - 0.7 * wetLevel, between 0.3 and 1 (1 for amount 0, 0.3 for amount 1);
\* at wetLevel 0 every output sample of a process call is the dry input
\* sample, whatever the delay lines held, and the call wrote the delay lines
\* and advanced their indices.
C29_DryAtZero ==
  /\ reverb.amount # Undef => wetLevel = Clamp(reverb.amount, 0, 10)
  /\ dryLevel = 100 - 7 * wetLevel
  /\ dryLevel >= 30 /\ dryLevel <= 100
  /\ reverb.amount = 0 => dryLevel = 100
  /\ reverb.amount = 10 => dryLevel = 30
  /\ (reverb.input # <<>> /\ reverb.wet = 0) =>
       /\ Len(reverb.output) = Len(reverb.input)
       /\ \A i \in DOMAIN reverb.input :
            /\ reverb.output[i][1] = 1000 * reverb.input[i][1]
            /\ reverb.output[i][2] = 1000 * reverb.input[i][2]
       /\ \A d \in DelayLineIds :
            /\ FirstCellWritten(d)
            /\ reverb.delayIndices[d]
                 = (reverb.before.indices[d] + Len(reverb.input)) % DelayTimes[d]

\* the amount set to 0 and the delay lines loaded by earlier sound, a buffer
\* of sound was processed: it came out as it went in and the delay lines
\* changed
C29_Witness ==
  /\ reverb.input # <<>>
  /\ reverb.amountThen = 0
  /\ reverb.wet = 0
  /\ LinesLoaded(reverb.before.lines)
  /\ \E i \in DOMAIN reverb.input : reverb.input[i] # <<0, 0>>
  /\ reverb.delayLines # reverb.before.lines
  /\ \A i \in DOMAIN reverb.input :
       reverb.output[i] = <<1000 * reverb.input[i][1], 1000 * reverb.input[i][2]>>

(***************************************************************************)
(* The edges of the envelope's phase.                                      *)
(***************************************************************************)
EnvelopePhases == {"attack", "hold", "decay", "sustain", "release", "forceStop", "stopped"}

EnvelopeCallIds == 1..Len(envelopeCalls)

\* the phase before and after call n
Edge(n) == <<envelopeCalls[n].before.phase, envelopeCalls[n].after.phase>>

ListedEdges ==
  {<<"attack", "hold">>, <<"hold", "decay">>, <<"decay", "sustain">>,
   <<"decay", "stopped">>, <<"decay", "release">>, <<"sustain", "release">>,
   <<"release", "stopped">>, <<"forceStop", "stopped">>}
    \cup {<<p, "forceStop">> : p \in EnvelopePhases \ {"forceStop"}}

\* a note-off changes no phase; the release phase begins in a getAmplitude
\* call made in decay or sustain after a note-off, and its anchor decayLevel
\* is the amplitude of the call before
ReleaseFromDecayOrSustain ==
  \A n \in EnvelopeCallIds :
    LET call == envelopeCalls[n]
    IN /\ call.op = "noteOff" => call.after.phase = call.before.phase
       /\ (call.after.phase = "release" /\ call.before.phase # "release") =>
            /\ call.op = "getAmplitude"
            /\ call.before.phase \in {"decay", "sustain"}
            /\ call.before.isNoteOff
            /\ call.after.decayLevel = call.before.lastAmplitude
            /\ n > 1 /\ envelopeCalls[n - 1].op = "getAmplitude" =>
                 call.after.decayLevel = envelopeCalls[n - 1].value

\* C30 as stated: every change of the phase is one of the listed edges, and
\* release begins only from decay or sustain, anchored at the last amplitude.
C30_ListedEdgesOnly ==
  /\ \A n \in EnvelopeCallIds : Edge(n)[1] # Edge(n)[2] => Edge(n) \in ListedEdges
  /\ ReleaseFromDecayOrSustain

\* C30 amended: every change of the phase is one of the listed edges or the
\* edge stopped -> attack of noteOn; noteOn makes that edge only, forceStop
\* makes the edges into forceStop only, noteOff makes none, and getAmplitude
\* makes the others; release begins only from decay or sustain, anchored at
\* the last amplitude.
C30_EdgesWithNoteOn ==
  /\ \A n \in EnvelopeCallIds :
       Edge(n)[1] # Edge(n)[2] =>
         CASE envelopeCalls[n].op = "noteOn" -> Edge(n) = <<"stopped", "attack">>
           [] envelopeCalls[n].op = "forceStop" -> Edge(n)[2] = "forceStop"
           [] envelopeCalls[n].op = "getAmplitude" ->
                Edge(n) \in ListedEdges /\ Edge(n)[2] # "forceStop"
           [] OTHER -> FALSE
  /\ ReleaseFromDecayOrSustain

\* the calls after call n that made the edge given
EdgeAfter(n, edge) == {m \in EnvelopeCallIds : m > n /\ Edge(m) = edge}

\* a note-off came during attack; the envelope went on through hold and
\* decay, began its release from decay at the amplitude it had, and stopped
C30_Witness ==
  \E a \in EnvelopeCallIds :
    /\ envelopeCalls[a].op = "noteOff" /\ envelopeCalls[a].before.phase = "attack"
    /\ \E b \in EdgeAfter(a, <<"attack", "hold">>) :
         \E c \in EdgeAfter(b, <<"hold", "decay">>) :
           \E d \in EdgeAfter(c, <<"decay", "release">>) :
             /\ envelopeCalls[d].after.decayLevel > 0
             /\ envelopeCalls[d].after.decayLevel = envelopeCalls[d - 1].value
             /\ EdgeAfter(d, <<"release", "stopped">>) # {}

(***************************************************************************)
(* The voice lists hold playing voices only.                               *)
(***************************************************************************)
\* every voice listed in the channels chs is playing
AllPlaying(chs) == \A c \in DOMAIN chs : \A v \in Voices(chs[c]) : OscIsPlaying(v)

\* the voices made so far that no channel lists any more
DroppedVids == (1..(nextVid - 1)) \ Sounding

\* C31: between operations every listed voice is playing: after every
\* dispatched event (note-on, note-off, pedal, all-notes-off, all-sounds-off,
\* with the forced stops they make) and after every process call, each voice
\* in a per-key list has its raw playing flag set and its envelope not
\* stopped; process has dropped the voices that stopped in it.
C31_ListedVoicesPlay ==
  /\ AllPlaying(channels)
  /\ \A i \in Steps : AllPlaying(steps[i].post.channels)

\* the voice v was released or force-stopped by some dispatched event
Silenced(v) ==
  \E i \in Steps :
    \E w \in VoicesOf(steps[i].post, 0) :
      w.vid = v /\ (w.isNoteOff \/ w.envelope.phase = "forceStop")

\* process dropped a voice that a note-on had force-stopped, one that had
\* had its note-off and one that played to its end, and a voice is still
\* listed
C31_Witness ==
  /\ Sounding # {}
  /\ \E v \in DroppedVids : ~Silenced(v)
  /\ \E v \in DroppedVids :
       \E i \in Steps :
         \E w \in VoicesOf(steps[i].post, 0) : w.vid = v /\ w.envelope.phase = "forceStop"
  /\ \E v \in DroppedVids :
       \E i \in Steps :
         \E w \in VoicesOf(steps[i].post, 0) :
           w.vid = v /\ w.isNoteOff /\ w.envelope.phase # "forceStop"

(***************************************************************************)
(* A note-on and the voices it creates.                                    *)
(***************************************************************************)
\* the voices of channel c that the dispatched event s created
Created(s, c) ==
  {v \in VoicesOf(s.post, c) : \A u \in VoicesOf(s.pre, c) : u.vid # v.vid}

\* C32: a note-on force-stops only other voices: every voice created by a
\* dispatched note-on is in the attack phase, not in forced stop, when the
\* note-on returns, also when its layered samples share an exclusive class.
C32_SparesItsOwnVoices ==
  \A i \in Steps :
    IsNoteOn(steps[i]) =>
      \A v \in Created(steps[i], steps[i].midi.channel) : v.envelope.phase = "attack"

\* a note-on created two voices of the same exclusive class
C32_SharedClass ==
  \E i \in Steps :
    /\ IsNoteOn(steps[i])
    /\ \E v, w \in Created(steps[i], steps[i].midi.channel) :
         /\ v.vid # w.vid
         /\ v.sample.exclusiveClass # NoClass
         /\ v.sample.exclusiveClass = w.sample.exclusiveClass

(***************************************************************************)
(* The queues of the scheduler.                                            *)
(***************************************************************************)
\* the queue q is in ascending scheduledFrame order
Ascending(q) ==
  \A i, j \in DOMAIN q : i < j => q[i].scheduledFrame <= q[j].scheduledFrame

\* no event of the queue q is due at the frame
NoneDue(q, frame) == \A i \in DOMAIN q : q[i].scheduledFrame > frame

\* C33: after every addEvent and every process call (with the
\* removeScheduledEvents calls its all-sounds-off events make) both pending
\* queues are in ascending scheduledFrame order; right after a process call
\* that returned, neither queue holds an event whose scheduledFrame is at or
\* before the frame the call was made at, and the temporary batch is empty.
C33_QueuesSorted ==
  [][/\ Ascending(scheduledEvents')
     /\ Ascending(scheduledReverbEvents')
     /\ (processed' # processed /\ raised' = raised) =>
          /\ NoneDue(scheduledEvents', currentFrame)
          /\ NoneDue(scheduledReverbEvents', currentFrame)
          /\ currentEvents' = <<>>]_vars

\* the events q holds were submitted later-frame first
OutOfOrder(q) ==
  \E i, j \in DOMAIN q : i < j /\ q[i].scheduledFrame < q[j].scheduledFrame /\ q[i].eid > q[j].eid

\* a process call dispatched an all-sounds-off and left a reverb event
\* queued and generic events that had been submitted later-frame first
C33_Witness ==
  /\ processed > 0
  /\ \E i \in Steps : IsController(steps[i], ALL_SOUNDS_OFF)
  /\ OutOfOrder(scheduledEvents)
  /\ scheduledReverbEvents # <<>>

(***************************************************************************)
(* The render worker and its cancel message.                               *)
(***************************************************************************)
\* C34: in the render worker, once a cancel message has been handled (before
\* the start message or while renderAudio waited on a polling turn) no
\* complete message is posted; a complete message is posted only when
\* renderAudio returned with the cancelled flag never set; a cancel message
\* that was posted but not handled before the render ended changes nothing:
\* the render returns its data up to currentFrame and complete is posted.
C34_CancelHandled ==
  /\ render.cancels > 0 => ~render.complete /\ render.phase # "returned"
  /\ render.complete => render.phase = "returned" /\ ~render.cancel
  /\ render.phase = "returned" => render.complete /\ render.length = currentFrame
  /\ render.phase = "cancelled" => render.cancels > 0

\* a cancel message was handled at the second polling turn and ended the
\* render there
C34_Witness ==
  /\ render.phase = "cancelled"
  /\ render.polls = 2
  /\ render.cancels = 1
  /\ ~render.complete

(***************************************************************************)
(* How often a queued event is dispatched.                                 *)
(***************************************************************************)
\* the frame the last process call was made at
LastProcessed == IF raised # <<>> THEN currentFrame ELSE currentFrame - BufferSize

\* a process call made after submission k found the event due
WasDue(k) ==
  /\ processed > 0
  /\ LastProcessed >= submitted[k].frame
  /\ LastProcessed >= TargetFrame(k)

\* the dispatches of submission k
DispatchesOf(k) == {j \in Dispatches : dispatched[j].eid = k}

\* the all-sounds-off events executed for the channel of submission k
SoundsOffFor(k) ==
  {i \in Steps : /\ IsController(steps[i], ALL_SOUNDS_OFF)
                 /\ steps[i].midi.channel = submitted[k].event.midi.channel}

\* the events pending, queued or popped, when step i began
PendingBefore(i) ==
  {steps[i].pre.scheduledEvents[n].eid : n \in DOMAIN steps[i].pre.scheduledEvents}
    \cup {steps[i].pre.currentEvents[n].eid : n \in DOMAIN steps[i].pre.currentEvents}

\* C35: every generic delayed event accepted by addEvent is dispatched at
\* most once; it has been dispatched once a process call was made at a frame
\* at or after its scheduledFrame, unless an all-sounds-off for its channel
\* was executed before; an event that an all-sounds-off removed is not
\* dispatched afterwards.
C35_DispatchedOnce ==
  /\ \A k \in Generic : Cardinality(DispatchesOf(k)) <= 1
  /\ \A k \in Generic :
       (WasDue(k) /\ \A i \in SoundsOffFor(k) : \E j \in DispatchesOf(k) : j < i)
         => DispatchesOf(k) # {}
  /\ \A k \in Generic :
       \A i \in SoundsOffFor(k) :
         k \in PendingBefore(i) => \A j \in DispatchesOf(k) : j <= i

\* a note was dispatched, another was removed by an all-sounds-off of its
\* channel, and a process call was made after the removed note's frame
C35_Removed ==
  \E k \in Generic :
    /\ WasDue(k)
    /\ DispatchesOf(k) = {}
    /\ \E i \in SoundsOffFor(k) : k \in PendingBefore(i)
    /\ \E n \in Generic : n # k /\ submitted[n].event.midi.subtype = "noteOn"
                          /\ DispatchesOf(n) # {}

(***************************************************************************)
(* Events of one target frame, unnumbered.                                 *)
(***************************************************************************)
\* C36: generic events without sequenceNumber that were submitted for the
\* same target frame are dispatched in submission order.
C36_SubmissionOrder ==
  \A i, j \in Dispatches :
    (/\ i < j
     /\ dispatched[i].scheduledFrame = dispatched[j].scheduledFrame
     /\ dispatched[i].sequenceNumber = NoSeq
     /\ dispatched[j].sequenceNumber = NoSeq)
      => dispatched[i].eid < dispatched[j].eid

\* two unnumbered events of one target frame have been dispatched by one
\* process call
C36_SameFrame ==
  \E i, j \in Dispatches :
    /\ i < j
    /\ dispatched[i].scheduledFrame = dispatched[j].scheduledFrame
    /\ dispatched[i].at = dispatched[j].at
    /\ dispatched[i].sequenceNumber = NoSeq
    /\ dispatched[j].sequenceNumber = NoSeq

\* the reverb events processScheduledEvents handed to the immediate callback
ReverbDispatches ==
  {i \in DOMAIN immediate : immediate[i].op = "process" /\ immediate[i].type = "reverbControl"}

\* C37: reverb-control events queued for the same target frame are dispatched
\* in submission order, and while the last of them is the last reverb event
\* applied, the wet level in effect is the amount of the one submitted last.
C37_ReverbOrder ==
  /\ \A i, j \in ReverbDispatches :
       (i < j /\ TargetFrame(immediate[i].eid) = TargetFrame(immediate[j].eid))
         => immediate[i].eid < immediate[j].eid
  /\ \A i \in ReverbDispatches :
       (\A j \in DOMAIN immediate : j > i => immediate[j].type # "reverbControl")
         => LET last == CHOOSE k \in {immediate[n].eid : n \in ReverbDispatches} :
                          /\ TargetFrame(k) = TargetFrame(immediate[i].eid)
                          /\ \A n \in ReverbDispatches :
                               TargetFrame(immediate[n].eid) = TargetFrame(k)
                                 => immediate[n].eid <= k
            IN wetLevel = Clamp(submitted[last].event.amount, 0, 10)

\* two reverb events of one target frame and different amounts have been
\* dispatched
C37_SameFrame ==
  \E i, j \in ReverbDispatches :
    /\ i < j
    /\ TargetFrame(immediate[i].eid) = TargetFrame(immediate[j].eid)
    /\ submitted[immediate[i].eid].event.amount # submitted[immediate[j].eid].event.amount

(***************************************************************************)
(* All-sounds-off and the events submitted after it.                       *)
(***************************************************************************)
\* the events pending, queued or popped, when step i ended
PendingAfter(i) ==
  {steps[i].post.scheduledEvents[n].eid : n \in DOMAIN steps[i].post.scheduledEvents}
    \cup {steps[i].post.currentEvents[n].eid : n \in DOMAIN steps[i].post.currentEvents}

\* C38: an all-sounds-off for channel c discards only events submitted before
\* it: a generic event of channel c submitted after the all-sounds-off
\* message and pending when the all-sounds-off is executed is still pending
\* afterwards, and it is dispatched once a process call reaches its frame.
C38_LaterEventsKept ==
  \A k \in Generic :
    \A i \in SoundsOffFor(k) :
      k > steps[i].eid =>
        /\ k \in PendingBefore(i) => k \in PendingAfter(i)
        /\ WasDue(k) => DispatchesOf(k) # {}

\* an all-sounds-off was executed while a note of its channel, submitted
\* after it for a later frame, was pending
C38_LaterPending ==
  \E k \in Generic :
    \E i \in SoundsOffFor(k) :
      /\ k > steps[i].eid
      /\ k \in PendingBefore(i)
      /\ TargetFrame(k) > TargetFrame(steps[i].eid)

(***************************************************************************)
(* MIDIPlayer: its timer.                                                  *)
(***************************************************************************)
\* the events a call gave to the output, the player being p before it and q
\* after it
EmittedBy(p, q) ==
  [k \in 1..(Len(q.emitted) - Len(p.emitted)) |-> q.emitted[Len(p.emitted) + k].event]

\* one all-sounds-off per channel, channel 0 first
SoundsOffAll ==
  [k \in 1..16 |-> MidiEvent(ControllerEvent(k - 1, ALL_SOUNDS_OFF, 0), 0, NoSeq)]

\* one reset-controllers per channel, channel 0 first
ResetAll ==
  [k \in 1..16 |-> MidiEvent(ControllerEvent(k - 1, RESET_CONTROLLERS, 0), 0, NoSeq)]

\* C39: a MIDIPlayer has at most one active interval timer, the one its
\* interval field names; resume starts one only when none is active; right
\* after pause and stop none is active; pause gives its output one
\* all-sounds-off for each of the 16 channels, and stop the same followed by
\* the reset-controllers.
C39_OneTimer ==
  [][/\ Cardinality(player'.timers) <= 1
     /\ player'.timers = IF player'.interval = Undef THEN {} ELSE {player'.interval}
     /\ (player'.last = "resume" /\ player'.calls # player.calls) =>
          /\ player.timers # {} => player'.timers = player.timers
          /\ player.timers = {} => Cardinality(player'.timers) = 1
     /\ (player'.last \in {"pause", "stop"} /\ player'.calls # player.calls) =>
          player'.timers = {}
     /\ (player'.last = "pause" /\ player'.calls # player.calls) =>
          EmittedBy(player, player') = SoundsOffAll
     /\ (player'.last = "stop" /\ player'.calls # player.calls) =>
          EmittedBy(player, player') = SoundsOffAll \o ResetAll]_vars

\* the song was played to its end, which cleared the timer; the player was
\* resumed, which started a second timer, and paused
C39_Witness ==
  /\ player.last = "pause"
  /\ player.nextTimer = 3
  /\ player.position > Len(PlayerSong)
  /\ player.timers = {}
  /\ player.calls = MaxPlayerCalls

(***************************************************************************)
(* MIDIPlayer: the note numbers it emits.                                  *)
(***************************************************************************)
\* the song's note-ons, and the note-off of each
SourceNoteOns == {a \in DOMAIN PlayerSong : PlayerSong[a].event.subtype = "noteOn"}

SourceNoteOff(a) ==
  CHOOSE b \in DOMAIN PlayerSong :
    /\ b > a
    /\ PlayerSong[b].event.subtype = "noteOff"
    /\ PlayerSong[b].event.channel = PlayerSong[a].event.channel
    /\ PlayerSong[b].event.noteNumber = PlayerSong[a].event.noteNumber

\* the emissions of song event a before emission n, and the last of them
EmittedBefore(a, n) == {m \in 1..(n - 1) : player.emitted[m].source = a}

LastBefore(a, n) == CHOOSE m \in EmittedBefore(a, n) : \A o \in EmittedBefore(a, n) : o <= m

\* the steps that dispatched emission n (the n-th event given to addEvent)
StepsOf(n) == {j \in Steps : steps[j].eid = n}

\* C40: the note-off MIDIPlayer emits for a source note carries the note
\* number of the note-on it last emitted for that note, and when the engine
\* has dispatched both, the voices the note-on created that are still held
\* have had their note-off (or are held by the pedal).
C40_SameNoteNumber ==
  \A a \in SourceNoteOns :
    \A n \in DOMAIN player.emitted :
      (player.emitted[n].source = SourceNoteOff(a) /\ EmittedBefore(a, n) # {}) =>
        LET m == LastBefore(a, n)
        IN /\ player.emitted[n].event.midi.noteNumber
                = player.emitted[m].event.midi.noteNumber
           /\ \A i \in StepsOf(m), j \in StepsOf(n) :
                i < j =>
                  \A v \in VoicesOf(steps[j].post, steps[i].midi.channel) :
                    v.vid \in CreatedBy(i) => (v.isNoteOff \/ v.isHold)

\* a note-on and its note-off were emitted with different transpositions and
\* both were dispatched
C40_TransposedBetween ==
  \E a \in SourceNoteOns :
    \E n \in DOMAIN player.emitted :
      /\ player.emitted[n].source = SourceNoteOff(a)
      /\ EmittedBefore(a, n) # {}
      /\ StepsOf(n) # {}
      /\ StepsOf(LastBefore(a, n)) # {}
====
